---- MODULE Spec2Model ----
(***************************************************************************)
(* Token lifecycle engine of token-lease: the in-memory registry           *)
(* (TokenStorage), the upstream gateway (GitHubTokenService), the HTTP     *)
(* handlers that issue and delete tokens (ApiRoutes) and the periodic      *)
(* sweep (TokenCleanupService).  Every handler is an async function: it    *)
(* runs to its next await in one step, and other handlers and timer        *)
(* callbacks run while it is suspended on an upstream call.                *)
(*                                                                         *)
(* Specifications: Spec (issue, delete, clearAll and sweep interleaved),   *)
(* ServerSpec (Spec with GET /tokens and GET /health), ClockSpec (issue,   *)
(* list view and sweep with a clock that advances between the reads of one *)
(* synchronous block), ConfigSpec (issue under every configuration the     *)
(* constructor accepts), TimerSpec (the cleanup timer's start and stop),   *)
(* DeleteSpec (the deletion routes over owners, ids and unknown names),    *)
(* BootSpec (the TokenLease constructor over options and environment, then *)
(* listen), PostSpec (POST /token over request bodies), DashboardSpec      *)
(* (GET /dashboard with the rate-limit query and its throwaway token),     *)
(* SweepLiveSpec (the timer's sweeps under fairness, for liveness),        *)
(* RegistrySpec (every registry method with its readers), SuspendSpec      *)
(* (the timer next to every foreground route), JwtSpec (generateJWT at     *)
(* every clock value around the turn of a second).                         *)
(***************************************************************************)
EXTENDS Integers, Sequences, FiniteSets, TLC

\* ---- bounds of the model ------------------------------------------------
NProcs == 2          \* handler invocations that can be in flight together
MaxIssue == 2        \* successful upstream exchanges (tokens ever minted)
MaxTime == 3         \* last value of the millisecond clock
TokenLifespan == 1   \* config.tokenLifespan, in clock units
MaxStarts == 2       \* calls of TokenCleanupService.start(), the constructor's included
JwtMinTime == 1990   \* the clock window in which assertions are built: it holds
JwtMaxTime == 2010   \* the turn of a second at 2000

Procs == 1..NProcs
Clients == {"app1", "default"}
\* owners for the deletion routes: the second is also the id of a record
DeleteClients == {"app1", "token_1_0"}
\* upstream replies to DELETE /installation/token and to POST .../access_tokens
RevokeOutcomes == {"204", "404"}
ExchangeErrors == {"404", "ECONNRESET"}

\* ---- TokenStorage (pure part) -------------------------------------------
\* The Map is a sequence of entries in insertion order, keyed by tokenId.
Range(s) == {s[k] : k \in 1..Len(s)}
Keys(s) == {s[k].tokenId : k \in 1..Len(s)}

TokenIdString(counter, t) ==
    "token_" \o ToString(counter) \o "_" \o ToString(t)

\* the counter part of an id string, read back from the string
CounterOf(id) ==
    CHOOSE c \in 0..(MaxIssue + NProcs + 1) :
        \E t \in 0..(MaxTime + 1) : id = TokenIdString(c, t)

\* generateTokenId: `token_${++this.tokenCounter}_${Date.now()}`
generateTokenId(counter, t) ==
    [counter |-> counter + 1, tokenId |-> TokenIdString(counter + 1, t)]

\* store with the counter taken from the registry size
storeBySize(s, counter, tokenEntry, t, t2) ==
    LET n == Len(s) + 1
        entry == [tokenId |-> TokenIdString(n, t), clientId |-> tokenEntry.clientId,
                  token |-> tokenEntry.token, expiresAt |-> tokenEntry.expiresAt,
                  cached |-> tokenEntry.cached, createdAt |-> t2]
    IN [storage |-> IF entry.tokenId \in Keys(s)
                       THEN [k \in 1..Len(s) |->
                               IF s[k].tokenId = entry.tokenId THEN entry ELSE s[k]]
                       ELSE Append(s, entry),
        counter |-> n, entry |-> entry]

\* store that keeps one entry per owner: the owner's earlier entries go
storeReplacingOwner(s, counter, tokenEntry, t, t2) ==
    LET g == generateTokenId(counter, t)
        entry == [tokenId |-> g.tokenId, clientId |-> tokenEntry.clientId,
                  token |-> tokenEntry.token, expiresAt |-> tokenEntry.expiresAt,
                  cached |-> tokenEntry.cached, createdAt |-> t2]
        Others(e) == e.clientId # tokenEntry.clientId
    IN [storage |-> Append(SelectSeq(s, Others), entry),
        counter |-> g.counter, entry |-> entry]

\* store that also renews the owner's earlier entries: their expiresAt
\* becomes the new entry's
storeRenewingOwner(s, counter, tokenEntry, t, t2) ==
    LET g == generateTokenId(counter, t)
        entry == [tokenId |-> g.tokenId, clientId |-> tokenEntry.clientId,
                  token |-> tokenEntry.token, expiresAt |-> tokenEntry.expiresAt,
                  cached |-> tokenEntry.cached, createdAt |-> t2]
    IN [storage |-> Append([k \in 1..Len(s) |->
                              IF s[k].clientId = tokenEntry.clientId
                                THEN [s[k] EXCEPT !.expiresAt = tokenEntry.expiresAt]
                                ELSE s[k]],
                           entry),
        counter |-> g.counter, entry |-> entry]

\* store: assigns id and createdAt, sets the entry under the id; t is the
\* clock read of generateTokenId, t2 the later read that becomes createdAt
store(s, counter, tokenEntry, t, t2) ==
    LET g == generateTokenId(counter, t)
        entry == [tokenId |-> g.tokenId, clientId |-> tokenEntry.clientId,
                  token |-> tokenEntry.token, expiresAt |-> tokenEntry.expiresAt,
                  cached |-> tokenEntry.cached, createdAt |-> t2]
    IN [storage |-> IF g.tokenId \in Keys(s)
                       THEN [k \in 1..Len(s) |->
                               IF s[k].tokenId = g.tokenId THEN entry ELSE s[k]]
                       ELSE Append(s, entry),
        counter |-> g.counter, entry |-> entry]

has(s, tokenId) == tokenId \in Keys(s)

get(s, tokenId) == CHOOSE e \in Range(s) : e.tokenId = tokenId

getAll(s) == s

\* Map.forEach((tokenData, tokenId) => ...): the pairs in insertion order
Items(s) == [k \in 1..Len(s) |-> [tokenId |-> s[k].tokenId, tokenData |-> s[k]]]

\* the lookup without its owner test
getByClientIdUnfiltered(s, clientId) == Items(s)

getByClientId(s, clientId) ==
    LET Match(item) == item.tokenData.clientId = clientId
    IN SelectSeq(Items(s), Match)

\* a removal by position, indexOf + splice: a missing id takes the last entry
deleteBySplice(s, tokenId) ==
    IF tokenId \in Keys(s)
      THEN LET Keep(e) == e.tokenId # tokenId IN SelectSeq(s, Keep)
      ELSE IF Len(s) = 0 THEN s ELSE SubSeq(s, 1, Len(s) - 1)

\* Map.delete: removes the key when present, nothing otherwise
delete(s, tokenId) ==
    LET Keep(e) == e.tokenId # tokenId IN SelectSeq(s, Keep)

\* what Map.delete returns: whether the key was there
deleteResult(s, tokenId) == tokenId \in Keys(s)

\* tokensToDelete.forEach(({ tokenId }) => this.storage.delete(tokenId))
RECURSIVE deleteEach(_, _)
deleteEach(s, items) ==
    IF items = << >> THEN s
    ELSE deleteEach(delete(s, items[1].tokenId), Tail(items))

\* deleteByClientId: looks the owner's entries up, deletes each, returns them
deleteByClientId(s, clientId) ==
    LET tokensToDelete == getByClientId(s, clientId)
    IN [storage |-> deleteEach(s, tokensToDelete), tokensToDelete |-> tokensToDelete]

\* a clear that drops the oldest entry only
clearOldest(s) == IF s = << >> THEN s ELSE Tail(s)

clear(s) == << >>

\* the comparison made inclusive
getExpiredTokensInclusive(s, t) ==
    LET Expired(item) == t >= item.tokenData.expiresAt
    IN SelectSeq(Items(s), Expired)

\* getExpiredTokens: one Date.now() read, then now > expiresAt per entry
getExpiredTokens(s, t) ==
    LET Expired(item) == t > item.tokenData.expiresAt
    IN SelectSeq(Items(s), Expired)

\* the size getter
sizeOf(s) == Len(s)

\* new Date(t).toISOString() for the timestamps within a second of the epoch
Pad3(n) == IF n < 10 THEN "00" \o ToString(n)
           ELSE IF n < 100 THEN "0" \o ToString(n) ELSE ToString(n)
toISOString(t) ==
    IF t >= 0 THEN "1970-01-01T00:00:00." \o Pad3(t) \o "Z"
              ELSE "1969-12-31T23:59:59." \o Pad3(1000 + t) \o "Z"

\* the n clock reads of a synchronous block that starts at clock t: each is
\* at or after the one before it
ClockReads(n, t) ==
    {r \in [1..n -> t..MaxTime] : \A k \in 1..n : k > 1 => r[k - 1] <= r[k]}
\* the reads when the clock stands still during the block
SameInstant(n, t) == {[k \in 1..n |-> t]}

\* a list view that leaves out the entries that have expired
getTokenStatusLive(s, reads) ==
    LET Live(item) == ~item.isExpired
    IN SelectSeq([k \in 1..Len(s) |->
                    [tokenId |-> s[k].tokenId,
                     clientId |-> s[k].clientId,
                     expiresAt |-> toISOString(s[k].expiresAt),
                     createdAt |-> toISOString(s[k].createdAt),
                     isExpired |-> reads[2 * k - 1] > s[k].expiresAt,
                     timeUntilExpiry |-> IF s[k].expiresAt - reads[2 * k] > 0
                                           THEN s[k].expiresAt - reads[2 * k] ELSE 0]],
                 Live)

\* a list view without Math.max: the difference as it comes
getTokenStatusSigned(s, reads) ==
    [k \in 1..Len(s) |->
        [tokenId |-> s[k].tokenId,
         clientId |-> s[k].clientId,
         expiresAt |-> toISOString(s[k].expiresAt),
         createdAt |-> toISOString(s[k].createdAt),
         isExpired |-> reads[2 * k - 1] > s[k].expiresAt,
         timeUntilExpiry |-> s[k].expiresAt - reads[2 * k]]]

\* getTokenStatus: per entry one Date.now() read for isExpired and a second
\* one for timeUntilExpiry; reads holds them in call order
getTokenStatus(s, reads) ==
    [k \in 1..Len(s) |->
        [tokenId |-> s[k].tokenId,
         clientId |-> s[k].clientId,
         expiresAt |-> toISOString(s[k].expiresAt),
         createdAt |-> toISOString(s[k].createdAt),
         isExpired |-> reads[2 * k - 1] > s[k].expiresAt,
         timeUntilExpiry |-> IF s[k].expiresAt - reads[2 * k] > 0
                               THEN s[k].expiresAt - reads[2 * k] ELSE 0]]

\* ---- GitHubTokenService (pure part) -------------------------------------
\* 9 * 60, the seconds added to the clock for exp
JwtLifetime == 540
\* Date.now() / 1000
MsPerSecond == 1000

\* before generateJWT has built an assertion
NoPayload == [iat |-> 0, exp |-> 0, iss |-> ""]

\* generateJWT with ten minutes added in place of nine
generateJWTTenMinutes(t1, t2, appId) ==
    [iat |-> t1 \div MsPerSecond, exp |-> (t2 \div MsPerSecond) + 600, iss |-> appId]

\* generateJWT: the payload jwt.sign signs; t1 is the Date.now() read for iat,
\* t2 the later one for exp
generateJWT(t1, t2, appId) ==
    [iat |-> t1 \div MsPerSecond, exp |-> (t2 \div MsPerSecond) + JwtLifetime,
     iss |-> appId]

\* revokeToken without its catch block
revokeTokenThrows(outcome) == IF outcome = "204" THEN "true" ELSE "throw"

\* revokeToken: true when axios.delete resolves, false from the catch block
revokeToken(outcome) == IF outcome = "204" THEN "true" ELSE "false"

\* a catch block that throws a new error in place of the one it caught
rethrownWrapped(error) == "Failed to generate installation token"

\* generateInstallationToken's catch block: logs and rethrows the same error
rethrown(error) == error

\* ---- values of a JSON request body ---------------------------------------
\* A value is its type, its text (booleans, numbers, strings) and its elements
\* (arrays); Undefined is a key that the body does not have.
Json(type, text, items) == [type |-> type, text |-> text, items |-> items]
Undefined == Json("undefined", "", << >>)
Str(text) == Json("string", text, << >>)
Num(text) == Json("number", text, << >>)
Arr(items) == Json("array", "", items)

\* what `v && ...` and `v || ...` test
Truthy(v) ==
    CASE v.type \in {"undefined", "null"} -> FALSE
      [] v.type = "boolean" -> v.text = "true"
      [] v.type = "number" -> v.text # "0"
      [] v.type = "string" -> v.text # ""
      [] OTHER -> TRUE

\* Array.isArray(v)
isArray(v) == v.type = "array"

\* repositories.some(repo => typeof repo !== 'string')
someNotString(v) == \E k \in 1..Len(v.items) : v.items[k].type # "string"

\* v.length > 0
hasLength(v) ==
    CASE v.type = "array" -> Len(v.items) > 0
      [] v.type = "string" -> v.text # ""
      [] OTHER -> FALSE

\* the test of the POST route that answers 400
invalidRepositories(repositories) ==
    Truthy(repositories) /\ (~isArray(repositories) \/ someNotString(repositories))

\* the requestBody generateInstallationToken sends: {} unless repositories is
\* truthy and has a length above 0
requestBodyOf(repositories) ==
    IF Truthy(repositories) /\ hasLength(repositories)
      THEN [restricted |-> TRUE, repositories |-> repositories]
      ELSE [restricted |-> FALSE, repositories |-> Undefined]

\* the values a POST body may carry under the key repositories
RepositoriesValues ==
    {Undefined, Json("null", "", << >>), Json("boolean", "false", << >>),
     Json("boolean", "true", << >>), Num("0"), Num("1"), Str(""), Str("repo1"),
     Json("object", "", << >>), Arr(<< >>), Arr(<<Str("repo1")>>),
     Arr(<<Str("repo1"), Str("repo2")>>), Arr(<<Str("repo1"), Num("1")>>),
     Arr(<<Num("1")>>)}

\* ---- ConfigValidator ----------------------------------------------------
\* An option that may be missing is a sequence: << >> for undefined, <<v>> for
\* the value v.  Truthy(o): what `o || ...` keeps.  A number is falsy when it
\* is 0; an environment string is falsy only when it is missing or empty, so
\* the string "0" is kept.
TruthyNumber(o) == o # << >> /\ o[1] # 0
TruthyString(o) == o # << >>

\* the default lifespan, 300000 ms in the code, in clock units of the model
DefaultLifespan == TokenLifespan

\* loadDefaults: option || environment || default, then Number(...)
loadDefaults(options, environment) ==
    [appId |-> IF options.appId # "" THEN options.appId ELSE environment.APP_ID,
     installationId |-> IF options.installationId # "" THEN options.installationId
                        ELSE environment.INSTALLATION_ID,
     keyFileExists |-> options.keyFileExists,
     tokenLifespan |-> IF TruthyNumber(options.tokenLifespan)
                         THEN options.tokenLifespan[1]
                         ELSE IF TruthyString(environment.TOKEN_LIFESPAN)
                                THEN environment.TOKEN_LIFESPAN[1]
                                ELSE DefaultLifespan]

\* validate: throws unless appId, installationId and the key file are there;
\* TRUE when it returns
validate(c) == c.appId # "" /\ c.installationId # "" /\ c.keyFileExists

\* the message of the Error validate throws, "" when it returns
validateError(c) ==
    IF c.appId = "" THEN "APP_ID is required"
    ELSE IF c.installationId = "" THEN "INSTALLATION_ID is required"
    ELSE IF ~c.keyFileExists THEN "Private key file not found"
    ELSE ""

\* the options and environment of the deployment the lifecycle is checked for
DefaultOptions ==
    [appId |-> "12345", installationId |-> "67890", keyFileExists |-> TRUE,
     tokenLifespan |-> << >>]
NoEnvironment == [APP_ID |-> "", INSTALLATION_ID |-> "", TOKEN_LIFESPAN |-> << >>]

\* ---- state --------------------------------------------------------------
VARIABLES
    storage,        \* TokenStorage.storage
    tokenCounter,   \* TokenStorage.tokenCounter
    now,            \* Date.now()
    minted,         \* tokens the provider has handed out (the next secret)
    serverUp,       \* FALSE once an exception has escaped a handler
    h,              \* per invocation: position, locals, response, history
    issued,         \* history: ids assigned by store, in assignment order
    removedIds,     \* history: ids that have left the registry
    okIssues,       \* history: issue calls that returned a token entry
    config,         \* TokenLease.config, as loadDefaults built it
    cleanupInterval, \* TokenCleanupService.cleanupInterval: a timer handle, 0 for null
    timers,         \* handles of the interval timers the runtime has active
    handles,        \* handles setInterval has returned so far
    stopped,        \* history: stop() has been called and start() not since
    tokenLease,     \* the TokenLease object: what its constructor has set up, its server
    jwtPayload      \* payload of the assertion generateJWT built last

\* the TokenLease object's own state: configuration and cleanup timer
lease == <<config, cleanupInterval, timers, handles, stopped, tokenLease, jwtPayload>>

vars == <<storage, tokenCounter, now, minted, serverUp, h, issued, removedIds, okIssues,
          config, cleanupInterval, timers, handles, stopped, tokenLease, jwtPayload>>

NoRes == [status |-> "none", success |-> FALSE, revoked |-> "n/a", count |-> 0,
          revokedCount |-> 0, error |-> "", tokenId |-> "",
          storedTokens |-> 0, totalTokens |-> 0, tokens |-> << >>,
          tokenLifespanMs |-> 0,
          rateLimit |-> "n/a"]   \* what getRateLimit returned: "info" or "null"

Idle ==
    [pc |-> "idle", op |-> "none", identifier |-> "", branch |-> "",
     list |-> << >>, i |-> 0, size |-> 0, revokedCount |-> 0, cleanedCount |-> 0,
     token |-> 0, round |-> 0, twice |-> FALSE,
     timer |-> 0,            \* the interval timer whose callback this is, 0 for none
     reads |-> << >>,        \* the clock reads of the list view, in call order
     repositories |-> Undefined,   \* req.body.repositories of a POST
     requestBody |-> requestBodyOf(Undefined),  \* body of the exchange request
     \* history of this invocation
     exch |-> 0, upErr |-> "", calls |-> {}, returned |-> {}, upOk |-> 0,
     removed |-> {}, inserted |-> {}, missed |-> {}, stale |-> {},
     snapTime |-> 0, snapTime1 |-> 0, storedSince |-> FALSE, cleaned1 |-> 0,
     afterStop |-> FALSE,
     stopSeen |-> FALSE,     \* stop() was called while this sweep was suspended
     res |-> NoRes]

\* before `new TokenLease(...)`: nothing of the object exists
NotConstructed ==
    [thrown |-> "", privateKey |-> FALSE, tokenStorage |-> FALSE, routes |-> FALSE,
     server |-> "none"]
\* after the constructor has returned
Built ==
    [thrown |-> "", privateKey |-> TRUE, tokenStorage |-> TRUE, routes |-> TRUE,
     server |-> "none"]
\* this.config before loadDefaults has run
NoConfig == [appId |-> "", installationId |-> "", keyFileExists |-> FALSE,
             tokenLifespan |-> 0]

\* the TokenLease constructor: loadDefaults, validate (which throws on a bad
\* configuration: then there is no server), and tokenCleanupService.start();
\* then TokenLease.start(), after which the server listens
Constructed(options, environment) ==
    /\ config = loadDefaults(options, environment)
    /\ validate(config)
    /\ cleanupInterval = 1
    /\ timers = {1}
    /\ handles = 1
    /\ stopped = FALSE
    /\ tokenLease = [Built EXCEPT !.server = "listening"]

\* a new TokenStorage, nothing in flight
FreshEngine ==
    /\ storage = << >>
    /\ tokenCounter = 0
    /\ now = 0
    /\ minted = 0
    /\ serverUp = TRUE
    /\ h = [p \in Procs |-> Idle]
    /\ issued = << >>
    /\ removedIds = {}
    /\ okIssues = 0
    /\ jwtPayload = NoPayload

Init ==
    /\ FreshEngine
    /\ Constructed(DefaultOptions, NoEnvironment)

\* the constructor arguments and environments a deployment may give
Options ==
    [appId : {"", "12345"}, installationId : {"", "67890"}, keyFileExists : BOOLEAN,
     tokenLifespan : {<< >>, <<0 - 1>>, <<0>>, <<2>>}]
Environments ==
    [APP_ID : {"", "12345"}, INSTALLATION_ID : {""}, TOKEN_LIFESPAN : {<< >>, <<0>>}]

\* the process before `new TokenLease(...)` has run
BootInit ==
    /\ FreshEngine
    /\ config = NoConfig
    /\ cleanupInterval = 0
    /\ timers = {}
    /\ handles = 0
    /\ stopped = FALSE
    /\ tokenLease = NotConstructed

\* any construction that does not throw
ConfigInit ==
    /\ FreshEngine
    /\ \E options \in Options, environment \in Environments :
          Constructed(options, environment)

\* entries that a step took out of the registry / put into it
Gone(s, t) == {e \in Range(s) : e.tokenId \notin Keys(t)}
Added(s, t) == {e \in Range(t) : e.tokenId \notin Keys(s)}

\* the identifiers a DELETE /tokens/:identifier may carry: an owner, the id of
\* a stored or of a removed record, or a name that is neither
Identifiers == DeleteClients \cup {"nobody"} \cup Keys(storage) \cup removedIds

\* a new invocation takes the first free slot (slots are interchangeable)
Free(p) == h[p].pc = "idle" /\ \A q \in Procs : q < p => h[q].pc # "idle"

\* ---- clock --------------------------------------------------------------
Tick ==
    /\ now < MaxTime
    /\ now' = now + 1
    /\ UNCHANGED <<storage, tokenCounter, minted, serverUp, h, issued, removedIds, okIssues>>
    /\ UNCHANGED lease

\* ---- issue: GET /token/:clientId -> getTokenForClient --------------------
\* runs generateJWT and sends the exchange request, then awaits it
StartIssue(p, clientId) ==
    /\ serverUp
    /\ Free(p)
    /\ h' = [h EXCEPT ![p] = [Idle EXCEPT !.pc = "exchange", !.op = "issue",
                                         !.identifier = clientId, !.exch = 1]]
    /\ UNCHANGED <<storage, tokenCounter, now, minted, serverUp, issued, removedIds, okIssues>>
    /\ UNCHANGED lease

\* axios.post resolves: generateInstallationToken returns the token data
ExchangeOk(p) ==
    /\ h[p].pc = "exchange"
    /\ minted < MaxIssue
    /\ minted' = minted + 1
    /\ h' = [h EXCEPT ![p].pc = "store", ![p].token = minted + 1]
    /\ UNCHANGED <<storage, tokenCounter, now, serverUp, issued, removedIds, okIssues>>
    /\ UNCHANGED lease

\* axios.post rejects: generateInstallationToken rethrows, getTokenForClient
\* rejects with it, the route's catch answers 500
ExchangeFails(p, error) ==
    /\ h[p].pc = "exchange"
    /\ h' = [h EXCEPT ![p].pc = "done", ![p].upErr = error,
                      ![p].res = [NoRes EXCEPT !.status = "500", !.success = FALSE,
                                               !.error = rethrown(error)]]
    /\ UNCHANGED <<storage, tokenCounter, now, minted, serverUp, issued, removedIds, okIssues>>
    /\ UNCHANGED lease

\* getTokenForClient handing back the owner's live entry when there is one
StoreTokenCached(p, t1, t2) ==
    /\ h[p].pc = "store"
    /\ LET live == {e \in Range(storage) :
                      e.clientId = h[p].identifier /\ now <= e.expiresAt}
           r == store(storage, tokenCounter,
                      [clientId |-> h[p].identifier, token |-> h[p].token,
                       expiresAt |-> now + config.tokenLifespan, cached |-> FALSE],
                      now, now)
       IN IF live # {}
            THEN /\ okIssues' = okIssues + 1
                 /\ h' = [h EXCEPT ![p].pc = "done",
                                   ![p].res = [NoRes EXCEPT
                                                 !.status = "200", !.success = TRUE,
                                                 !.tokenId = (CHOOSE e \in live : TRUE).tokenId]]
                 /\ UNCHANGED <<storage, tokenCounter, issued>>
            ELSE /\ storage' = r.storage
                 /\ tokenCounter' = r.counter
                 /\ issued' = Append(issued, r.entry.tokenId)
                 /\ okIssues' = okIssues + 1
                 /\ h' = [h EXCEPT ![p].pc = "done",
                                   ![p].inserted = Added(storage, r.storage),
                                   ![p].res = [NoRes EXCEPT !.status = "200",
                                                            !.success = TRUE,
                                                            !.tokenId = r.entry.tokenId]]
    /\ UNCHANGED <<now, minted, serverUp, removedIds>>
    /\ UNCHANGED lease

\* getTokenForClient after the await: computes expiresAt, stores, returns.
\* It reads the clock three times: createTime (now), generateTokenId (t1) and
\* store's createdAt (t2); the clock may have advanced from one read to the
\* next, and stands at t2 when the step ends.
StoreToken(p, t1, t2) ==
    /\ h[p].pc = "store"
    /\ now <= t1 /\ t1 <= t2 /\ t2 <= MaxTime
    /\ LET createTime == now
           expiresAt == createTime + config.tokenLifespan
           r == store(storage, tokenCounter,
                      [clientId |-> h[p].identifier, token |-> h[p].token,
                       expiresAt |-> expiresAt, cached |-> FALSE], t1, t2)
       IN /\ storage' = r.storage
          /\ now' = t2
          /\ tokenCounter' = r.counter
          /\ issued' = Append(issued, r.entry.tokenId)
          /\ okIssues' = okIssues + 1
          /\ h' = [q \in Procs |->
                     IF q = p
                       THEN [h[p] EXCEPT !.pc = "done",
                                         !.inserted = Added(storage, r.storage),
                                         !.res = [NoRes EXCEPT !.status = "200",
                                                               !.success = TRUE,
                                                               !.tokenId = r.entry.tokenId]]
                       ELSE IF h[q].op = "sweep" /\ h[q].pc # "done"
                              THEN [h[q] EXCEPT !.storedSince = TRUE]
                              ELSE h[q]]
    /\ UNCHANGED <<minted, serverUp, removedIds>>
    /\ UNCHANGED lease

\* ---- issue with a scope: POST /token/:clientId ----------------------------
\* the POST route up to its 400 answer or to the await of the exchange request
\* that getTokenForClient(clientId, repositories) sends
StartPost(p, clientId, repositories) ==
    /\ serverUp
    /\ Free(p)
    /\ LET fresh == [Idle EXCEPT !.op = "post", !.identifier = clientId,
                                !.repositories = repositories]
       IN h' = [h EXCEPT ![p] =
                  IF invalidRepositories(repositories)
                    THEN [fresh EXCEPT !.pc = "done",
                                       !.res = [NoRes EXCEPT
                                                  !.status = "400", !.success = FALSE,
                                                  !.error = "Invalid repositories parameter"]]
                    ELSE [fresh EXCEPT !.pc = "exchange", !.exch = 1,
                                       !.requestBody = requestBodyOf(repositories)]]
    /\ UNCHANGED <<storage, tokenCounter, now, minted, serverUp, issued, removedIds, okIssues>>
    /\ UNCHANGED lease

\* ---- GET /tokens and GET /health -----------------------------------------
\* GET /tokens: getTokenStatus and the size, answered in the same step; reads
\* are the clock reads getTokenStatus makes, the clock stands at the last one
ListTokens(p, reads) ==
    /\ serverUp
    /\ Free(p)
    /\ reads \in ClockReads(2 * Len(storage), now)
    /\ now' = IF Len(reads) = 0 THEN now ELSE reads[Len(reads)]
    /\ h' = [h EXCEPT ![p] =
               [Idle EXCEPT !.op = "list", !.pc = "done", !.snapTime = now,
                            !.list = getAll(storage), !.reads = reads,
                            !.res = [NoRes EXCEPT !.status = "200", !.success = TRUE,
                                                  !.totalTokens = sizeOf(storage),
                                                  !.tokens = getTokenStatus(storage, reads)]]]
    /\ UNCHANGED <<storage, tokenCounter, minted, serverUp, issued, removedIds, okIssues>>
    /\ UNCHANGED lease

\* GET /health: reports the registry size
Health(p) ==
    /\ serverUp
    /\ Free(p)
    /\ h' = [h EXCEPT ![p] =
               [Idle EXCEPT !.op = "health", !.pc = "done",
                            !.res = [NoRes EXCEPT !.status = "200", !.success = TRUE,
                                                  !.storedTokens = sizeOf(storage),
                                                  !.tokenLifespanMs = config.tokenLifespan]]]
    /\ UNCHANGED <<storage, tokenCounter, now, minted, serverUp, issued, removedIds, okIssues>>
    /\ UNCHANGED lease

\* ---- GET /dashboard -> GitHubTokenService.getRateLimit --------------------
\* the route takes the list view, then awaits getRateLimit, which awaits
\* generateInstallationToken for a temporary token
StartDashboard(p, reads) ==
    /\ serverUp
    /\ Free(p)
    /\ reads \in ClockReads(2 * Len(storage), now)
    /\ now' = IF Len(reads) = 0 THEN now ELSE reads[Len(reads)]
    /\ h' = [h EXCEPT ![p] =
               [Idle EXCEPT !.op = "dashboard", !.pc = "rl_exchange", !.exch = 1,
                            !.snapTime = now, !.list = getAll(storage), !.reads = reads,
                            !.res = [NoRes EXCEPT !.tokens = getTokenStatus(storage, reads)]]]
    /\ UNCHANGED <<storage, tokenCounter, minted, serverUp, issued, removedIds, okIssues>>
    /\ UNCHANGED lease

\* the temporary token arrives; getRateLimit sends GET /rate_limit with it
RateLimitExchangeOk(p) ==
    /\ h[p].pc = "rl_exchange"
    /\ minted < MaxIssue
    /\ minted' = minted + 1
    /\ h' = [h EXCEPT ![p].pc = "rl_query", ![p].token = minted + 1]
    /\ UNCHANGED <<storage, tokenCounter, now, serverUp, issued, removedIds, okIssues>>
    /\ UNCHANGED lease

\* generateInstallationToken rejects: getRateLimit's catch returns null and the
\* route sends the page without the rate limit
RateLimitExchangeFails(p, error) ==
    /\ h[p].pc = "rl_exchange"
    /\ h' = [h EXCEPT ![p].pc = "done", ![p].upErr = error,
                      ![p].res = [@ EXCEPT !.status = "200", !.success = TRUE,
                                           !.rateLimit = "null"]]
    /\ UNCHANGED <<storage, tokenCounter, now, minted, serverUp, issued, removedIds, okIssues>>
    /\ UNCHANGED lease

\* GET /rate_limit resolves: getRateLimit awaits revokeToken(tokenData.token)
RateLimitQueryOk(p) ==
    /\ h[p].pc = "rl_query"
    /\ h' = [h EXCEPT ![p].pc = "rl_revoke", ![p].calls = {h[p].token}]
    /\ UNCHANGED <<storage, tokenCounter, now, minted, serverUp, issued, removedIds, okIssues>>
    /\ UNCHANGED lease

\* GET /rate_limit rejects: the catch block returns null
RateLimitQueryFails(p, error) ==
    /\ h[p].pc = "rl_query"
    /\ h' = [h EXCEPT ![p].pc = "done", ![p].upErr = error,
                      ![p].res = [@ EXCEPT !.status = "200", !.success = TRUE,
                                           !.rateLimit = "null"]]
    /\ UNCHANGED <<storage, tokenCounter, now, minted, serverUp, issued, removedIds, okIssues>>
    /\ UNCHANGED lease

\* revokeToken returned: getRateLimit builds its result from
\* response.data.resources (a TypeError when the reply has none: null)
RateLimitRevoked(p, outcome, wellFormed) ==
    /\ h[p].pc = "rl_revoke"
    /\ h' = [h EXCEPT ![p].pc = "done",
                      ![p].returned = {h[p].token},
                      ![p].upOk = IF revokeToken(outcome) = "true" THEN 1 ELSE 0,
                      ![p].res = [@ EXCEPT !.status = "200", !.success = TRUE,
                                           !.rateLimit = IF wellFormed THEN "info"
                                                         ELSE "null"]]
    /\ UNCHANGED <<storage, tokenCounter, now, minted, serverUp, issued, removedIds, okIssues>>
    /\ UNCHANGED lease

\* ---- shared bookkeeping of a continuation that follows a revoke call -----
\* the invocation's history after one revoke call returned and the registry
\* went from s to t
Noted(slot, token, outcome, s, t, target) ==
    [slot EXCEPT !.returned = @ \cup {token},
                 !.upOk = @ + (IF outcome = "204" THEN 1 ELSE 0),
                 !.removed = @ \cup Gone(s, t),
                 !.missed = @ \cup (IF target \in Keys(s) THEN {} ELSE {target})]

\* an exception escaped an async handler: the promise rejects unhandled
Crashed(slot) ==
    [slot EXCEPT !.pc = "done", !.res = [NoRes EXCEPT !.status = "unhandled"]]

\* ---- DELETE /tokens/:identifier -> handleTokenDeletion -------------------
\* the id branch with the two statements swapped: delete, then await revoke
StartDeleteEager(p, identifier) ==
    /\ serverUp
    /\ Free(p)
    /\ has(storage, identifier)
    /\ LET tokenData == get(storage, identifier)
           s2 == delete(storage, identifier)
       IN /\ storage' = s2
          /\ removedIds' = removedIds \cup {e.tokenId : e \in Gone(storage, s2)}
          /\ h' = [h EXCEPT ![p] =
                     [Idle EXCEPT !.op = "delete", !.identifier = identifier,
                                  !.pc = "revoke", !.branch = "id",
                                  !.list = <<[tokenId |-> identifier,
                                              tokenData |-> tokenData]>>,
                                  !.i = 1, !.calls = {tokenData.token},
                                  !.removed = Gone(storage, s2)]]
    /\ UNCHANGED <<tokenCounter, now, minted, serverUp, issued, okIssues>>
    /\ UNCHANGED lease

\* the lookup with the owner tried first and the id second
StartDeleteOwnerFirst(p, identifier) ==
    /\ serverUp
    /\ Free(p)
    /\ LET fresh == [Idle EXCEPT !.op = "delete", !.identifier = identifier]
           tokensToDelete == getByClientId(storage, identifier)
       IN IF Len(tokensToDelete) > 0
            THEN h' = [h EXCEPT ![p] =
                         [fresh EXCEPT !.pc = "revoke", !.branch = "owner",
                                       !.list = tokensToDelete, !.i = 1,
                                       !.calls = {tokensToDelete[1].tokenData.token}]]
            ELSE IF has(storage, identifier)
                   THEN LET tokenData == get(storage, identifier)
                        IN h' = [h EXCEPT ![p] =
                                   [fresh EXCEPT !.pc = "revoke", !.branch = "id",
                                                 !.list = <<[tokenId |-> identifier,
                                                             tokenData |-> tokenData]>>,
                                                 !.i = 1, !.calls = {tokenData.token}]]
                   ELSE h' = [h EXCEPT ![p] =
                                [fresh EXCEPT !.pc = "done", !.branch = "owner",
                                              !.res = [NoRes EXCEPT !.status = "200",
                                                                    !.success = FALSE]]]
    /\ UNCHANGED <<storage, tokenCounter, now, minted, serverUp, issued, removedIds, okIssues>>
    /\ UNCHANGED lease

\* handleTokenDeletion up to its first await, or to its answer on a miss
StartDelete(p, identifier) ==
    /\ serverUp
    /\ Free(p)
    /\ LET fresh == [Idle EXCEPT !.op = "delete", !.identifier = identifier]
       IN IF has(storage, identifier)
            THEN LET tokenData == get(storage, identifier)
                 IN h' = [h EXCEPT ![p] =
                            [fresh EXCEPT !.pc = "revoke", !.branch = "id",
                                          !.list = <<[tokenId |-> identifier,
                                                      tokenData |-> tokenData]>>,
                                          !.i = 1, !.calls = {tokenData.token}]]
            ELSE LET tokensToDelete == getByClientId(storage, identifier)
                 IN IF Len(tokensToDelete) > 0
                      THEN h' = [h EXCEPT ![p] =
                                   [fresh EXCEPT !.pc = "revoke", !.branch = "owner",
                                                 !.list = tokensToDelete, !.i = 1,
                                                 !.calls = {tokensToDelete[1].tokenData.token}]]
                      ELSE h' = [h EXCEPT ![p] =
                                   [fresh EXCEPT !.pc = "done", !.branch = "owner",
                                                 !.res = [NoRes EXCEPT !.status = "200",
                                                                       !.success = FALSE]]]
    /\ UNCHANGED <<storage, tokenCounter, now, minted, serverUp, issued, removedIds, okIssues>>
    /\ UNCHANGED lease

\* by id: revokeToken returned; delete the id and answer
DeleteIdRevoked(p, outcome) ==
    /\ h[p].pc = "revoke" /\ h[p].op = "delete" /\ h[p].branch = "id"
    /\ LET revoked == revokeToken(outcome)
           item == h[p].list[1]
           s2 == delete(storage, h[p].identifier)
       IN IF revoked = "throw"
            THEN /\ h' = [h EXCEPT ![p] = Crashed(h[p])]
                 /\ serverUp' = FALSE
                 /\ UNCHANGED <<storage, removedIds>>
            ELSE /\ storage' = s2
                 /\ removedIds' = removedIds \cup {e.tokenId : e \in Gone(storage, s2)}
                 /\ h' = [h EXCEPT ![p] =
                            [Noted(h[p], item.tokenData.token, outcome, storage, s2,
                                   h[p].identifier)
                               EXCEPT !.pc = "done",
                                      !.revokedCount = IF revoked = "true" THEN 1 ELSE 0,
                                      !.res = [NoRes EXCEPT !.status = "200",
                                                            !.success = TRUE,
                                                            !.tokenId = h[p].identifier,
                                                            !.revoked = revoked]]]
                 /\ UNCHANGED serverUp
    /\ UNCHANGED <<tokenCounter, now, minted, issued, okIssues>>
    /\ UNCHANGED lease

\* the owner loop with the removal made by owner: every turn drops all the
\* records the owner has at that moment
DeleteOwnerRevokedByOwner(p, outcome) ==
    /\ h[p].pc = "revoke" /\ h[p].op = "delete" /\ h[p].branch = "owner"
    /\ LET revoked == revokeToken(outcome)
           item == h[p].list[h[p].i]
           revokedCount == h[p].revokedCount + (IF revoked = "true" THEN 1 ELSE 0)
           s2 == deleteByClientId(storage, h[p].identifier).storage
           noted == Noted(h[p], item.tokenData.token, outcome, storage, s2, item.tokenId)
       IN /\ storage' = s2
          /\ removedIds' = removedIds \cup {e.tokenId : e \in Gone(storage, s2)}
          /\ IF h[p].i < Len(h[p].list)
               THEN h' = [h EXCEPT ![p] =
                            [noted EXCEPT !.revokedCount = revokedCount,
                                          !.i = @ + 1,
                                          !.calls = @ \cup
                                             {h[p].list[h[p].i + 1].tokenData.token}]]
               ELSE h' = [h EXCEPT ![p] =
                            [noted EXCEPT !.pc = "done",
                                          !.revokedCount = revokedCount,
                                          !.res = [NoRes EXCEPT
                                                     !.status = "200",
                                                     !.success = TRUE,
                                                     !.count = Len(h[p].list),
                                                     !.revokedCount = revokedCount]]]
    /\ UNCHANGED <<tokenCounter, now, minted, serverUp, issued, okIssues>>
    /\ UNCHANGED lease

\* by owner: one turn of the loop after its await, then the next revoke call
\* or the answer
DeleteOwnerRevoked(p, outcome) ==
    /\ h[p].pc = "revoke" /\ h[p].op = "delete" /\ h[p].branch = "owner"
    /\ LET revoked == revokeToken(outcome)
           item == h[p].list[h[p].i]
           revokedCount == h[p].revokedCount + (IF revoked = "true" THEN 1 ELSE 0)
           s2 == delete(storage, item.tokenId)
           noted == Noted(h[p], item.tokenData.token, outcome, storage, s2, item.tokenId)
       IN IF revoked = "throw"
            THEN /\ h' = [h EXCEPT ![p] = Crashed(h[p])]
                 /\ serverUp' = FALSE
                 /\ UNCHANGED <<storage, removedIds>>
            ELSE /\ storage' = s2
                 /\ removedIds' = removedIds \cup {e.tokenId : e \in Gone(storage, s2)}
                 /\ IF h[p].i < Len(h[p].list)
                      THEN h' = [h EXCEPT ![p] =
                                   [noted EXCEPT !.revokedCount = revokedCount,
                                                 !.i = @ + 1,
                                                 !.calls = @ \cup
                                                    {h[p].list[h[p].i + 1].tokenData.token}]]
                      ELSE h' = [h EXCEPT ![p] =
                                   [noted EXCEPT !.pc = "done",
                                                 !.revokedCount = revokedCount,
                                                 !.res = [NoRes EXCEPT
                                                            !.status = "200",
                                                            !.success = TRUE,
                                                            !.count = Len(h[p].list),
                                                            !.revokedCount = revokedCount]]]
                 /\ UNCHANGED serverUp
    /\ UNCHANGED <<tokenCounter, now, minted, issued, okIssues>>
    /\ UNCHANGED lease

\* TokenStorage.deleteByClientId called on the registry directly (the routes
\* do not call it): one synchronous step, no revoke call
DeleteByClientId(p, clientId) ==
    /\ serverUp
    /\ Free(p)
    /\ LET r == deleteByClientId(storage, clientId)
       IN /\ storage' = r.storage
          /\ removedIds' = removedIds \cup {e.tokenId : e \in Gone(storage, r.storage)}
          /\ h' = [h EXCEPT ![p] =
                     [Idle EXCEPT !.op = "deleteByClientId", !.pc = "done",
                                  !.identifier = clientId, !.list = r.tokensToDelete,
                                  !.removed = Gone(storage, r.storage),
                                  !.res = [NoRes EXCEPT !.status = "returned",
                                                        !.success = TRUE,
                                                        !.count = Len(r.tokensToDelete)]]]
    /\ UNCHANGED <<tokenCounter, now, minted, serverUp, issued, okIssues>>
    /\ UNCHANGED lease

\* ---- DELETE /tokens -> handleClearAllTokens ------------------------------
\* clearAll reporting the id counter as the number of records cleared
StartClearByCounter(p) ==
    /\ serverUp
    /\ Free(p)
    /\ LET allTokens == getAll(storage)
           size == tokenCounter
           fresh == [Idle EXCEPT !.op = "clear", !.size = size, !.list = allTokens]
       IN IF Len(allTokens) > 0
            THEN /\ h' = [h EXCEPT ![p] = [fresh EXCEPT !.pc = "revoke", !.i = 1,
                                                        !.calls = {allTokens[1].token}]]
                 /\ UNCHANGED <<storage, removedIds>>
            ELSE LET s2 == clear(storage)
                 IN /\ storage' = s2
                    /\ removedIds' = removedIds \cup {e.tokenId : e \in Gone(storage, s2)}
                    /\ h' = [h EXCEPT ![p] =
                               [fresh EXCEPT !.pc = "done",
                                             !.removed = Gone(storage, s2),
                                             !.res = [NoRes EXCEPT !.status = "200",
                                                                   !.success = TRUE,
                                                                   !.count = size,
                                                                   !.revokedCount = 0]]]
    /\ UNCHANGED <<tokenCounter, now, minted, serverUp, issued, okIssues>>
    /\ UNCHANGED lease

\* handleClearAllTokens up to its first await, or to its answer when the
\* registry is empty
StartClear(p) ==
    /\ serverUp
    /\ Free(p)
    /\ LET allTokens == getAll(storage)
           size == Len(allTokens)
           fresh == [Idle EXCEPT !.op = "clear", !.size = size, !.list = allTokens]
       IN IF size > 0
            THEN /\ h' = [h EXCEPT ![p] = [fresh EXCEPT !.pc = "revoke", !.i = 1,
                                                        !.calls = {allTokens[1].token}]]
                 /\ UNCHANGED <<storage, removedIds>>
            ELSE LET s2 == clear(storage)
                 IN /\ storage' = s2
                    /\ removedIds' = removedIds \cup {e.tokenId : e \in Gone(storage, s2)}
                    /\ h' = [h EXCEPT ![p] =
                               [fresh EXCEPT !.pc = "done",
                                             !.removed = Gone(storage, s2),
                                             !.res = [NoRes EXCEPT !.status = "200",
                                                                   !.success = TRUE,
                                                                   !.count = size,
                                                                   !.revokedCount = 0]]]
    /\ UNCHANGED <<tokenCounter, now, minted, serverUp, issued, okIssues>>
    /\ UNCHANGED lease

\* one turn of the revoke loop; after the last one clear() and the answer
ClearRevoked(p, outcome) ==
    /\ h[p].pc = "revoke" /\ h[p].op = "clear"
    /\ LET revoked == revokeToken(outcome)
           tokenData == h[p].list[h[p].i]
           revokedCount == h[p].revokedCount + (IF revoked = "true" THEN 1 ELSE 0)
       IN IF revoked = "throw"
            THEN /\ h' = [h EXCEPT ![p] = Crashed(h[p])]
                 /\ serverUp' = FALSE
                 /\ UNCHANGED <<storage, removedIds>>
            ELSE IF h[p].i < Len(h[p].list)
                   THEN /\ h' = [h EXCEPT ![p] =
                                   [Noted(h[p], tokenData.token, outcome, storage, storage,
                                          tokenData.tokenId)
                                      EXCEPT !.revokedCount = revokedCount,
                                             !.i = @ + 1,
                                             !.missed = h[p].missed,
                                             !.calls = @ \cup {h[p].list[h[p].i + 1].token}]]
                        /\ UNCHANGED <<storage, removedIds, serverUp>>
                   ELSE LET s2 == clear(storage)
                        IN /\ storage' = s2
                           /\ removedIds' = removedIds \cup
                                              {e.tokenId : e \in Gone(storage, s2)}
                           /\ h' = [h EXCEPT ![p] =
                                      [Noted(h[p], tokenData.token, outcome, storage, s2,
                                             tokenData.tokenId)
                                         EXCEPT !.pc = "done",
                                                !.revokedCount = revokedCount,
                                                !.missed = {e.tokenId : e \in Range(h[p].list)}
                                                             \ Keys(storage),
                                                !.res = [NoRes EXCEPT
                                                           !.status = "200",
                                                           !.success = TRUE,
                                                           !.count = h[p].size,
                                                           !.revokedCount = revokedCount]]]
                           /\ UNCHANGED serverUp
    /\ UNCHANGED <<tokenCounter, now, minted, issued, okIssues>>
    /\ UNCHANGED lease

\* ---- the sweep: TokenCleanupService.cleanupExpiredTokens -----------------
\* one call of cleanupExpiredTokens on registry s at clock t, run to its first
\* await (or to its end when nothing is expired)
BeginSweep(slot, s, t) ==
    LET expiredTokens == getExpiredTokens(s, t)
        call == [slot EXCEPT !.res = NoRes, !.list = expiredTokens, !.revokedCount = 0,
                             !.cleanedCount = 0, !.calls = {}, !.returned = {},
                             !.upOk = 0, !.removed = {}, !.missed = {},
                             !.stale = {e \in Range(s) : e.expiresAt < t},
                             !.snapTime = t]
    IN IF Len(expiredTokens) > 0
         THEN [call EXCEPT !.pc = "revoke", !.i = 1,
                           !.calls = {expiredTokens[1].tokenData.token}]
         ELSE [call EXCEPT !.pc = "done", !.i = 0,
                           !.res = [NoRes EXCEPT !.status = "returned", !.success = TRUE]]

\* the caller's second call, made as soon as the first has returned
SecondCall(slot, s, t) ==
    BeginSweep([slot EXCEPT !.round = 2, !.snapTime1 = slot.snapTime,
                            !.cleaned1 = Cardinality(slot.removed)], s, t)

\* started by the interval timer or by TokenLease.cleanupExpiredTokens();
\* twice: the caller awaits the call and calls again at once
StartSweep(p, twice) ==
    /\ serverUp
    /\ Free(p)
    /\ LET first == BeginSweep([Idle EXCEPT !.op = "sweep", !.round = 1,
                                            !.twice = twice], storage, now)
       IN h' = [h EXCEPT ![p] = IF first.pc = "done" /\ twice
                                  THEN SecondCall(first, storage, now)
                                  ELSE first]
    /\ UNCHANGED <<storage, tokenCounter, now, minted, serverUp, issued, removedIds, okIssues>>
    /\ UNCHANGED lease

\* one turn of the loop after its await: count, delete, then the next revoke
\* call or the end of the call
SweepTurn(p, outcome, s2) ==
    /\ h[p].pc = "revoke" /\ h[p].op = "sweep"
    /\ LET revoked == revokeToken(outcome)
           item == h[p].list[h[p].i]
           revokedCount == h[p].revokedCount + (IF revoked = "true" THEN 1 ELSE 0)
           noted == [Noted(h[p], item.tokenData.token, outcome, storage, s2, item.tokenId)
                       EXCEPT !.revokedCount = revokedCount, !.cleanedCount = @ + 1]
           ended == [noted EXCEPT !.pc = "done",
                                  !.res = [NoRes EXCEPT !.status = "returned",
                                                        !.success = TRUE,
                                                        !.count = noted.cleanedCount,
                                                        !.revokedCount = revokedCount]]
       IN IF revoked = "throw"
            THEN /\ h' = [h EXCEPT ![p] = Crashed(h[p])]
                 /\ serverUp' = FALSE
                 /\ UNCHANGED <<storage, removedIds>>
            ELSE /\ storage' = s2
                 /\ removedIds' = removedIds \cup {e.tokenId : e \in Gone(storage, s2)}
                 /\ IF h[p].i < Len(h[p].list)
                      THEN h' = [h EXCEPT ![p] =
                                   [noted EXCEPT !.i = @ + 1,
                                                 !.calls = @ \cup
                                                    {h[p].list[h[p].i + 1].tokenData.token}]]
                      ELSE h' = [h EXCEPT ![p] =
                                   IF h[p].twice /\ h[p].round = 1
                                     THEN SecondCall(ended, s2, now)
                                     ELSE ended]
                 /\ UNCHANGED serverUp
    /\ UNCHANGED <<tokenCounter, now, minted, issued, okIssues>>
    /\ UNCHANGED lease

\* the loop body with the removal made conditional on the revocation
SweepRevokedKeeps(p, outcome) ==
    /\ h[p].pc = "revoke"
    /\ SweepTurn(p, outcome,
                 IF revokeToken(outcome) = "true"
                   THEN delete(storage, h[p].list[h[p].i].tokenId)
                   ELSE storage)

SweepRevoked(p, outcome) ==
    /\ h[p].pc = "revoke"
    /\ SweepTurn(p, outcome, delete(storage, h[p].list[h[p].i].tokenId))

\* the DELETE /tokens/:identifier? route: handleTokenDeletion when the path
\* carries an identifier, handleClearAllTokens when it carries none ("")
DeleteRoute(p, identifier) ==
    IF identifier # "" THEN StartDelete(p, identifier) ELSE StartClear(p)

\* the response has been sent and the invocation is over
Finish(p) ==
    /\ h[p].pc = "done"
    /\ h' = [h EXCEPT ![p] = Idle]
    /\ UNCHANGED <<storage, tokenCounter, now, minted, serverUp, issued, removedIds, okIssues>>
    /\ UNCHANGED lease

\* ---- the cleanup timer: TokenCleanupService.start / stop -----------------
\* start(): setInterval returns a new handle, which overwrites cleanupInterval
\* (startTokenCleanup() of TokenLease is this call)
start ==
    /\ handles < MaxStarts
    /\ handles' = handles + 1
    /\ timers' = timers \cup {handles + 1}
    /\ cleanupInterval' = handles + 1
    /\ stopped' = FALSE
    /\ UNCHANGED <<storage, tokenCounter, now, minted, serverUp, h, issued, removedIds,
                   okIssues, config, tokenLease, jwtPayload>>

\* stop() that also abandons the sweeps in flight: their loops end at once
stopAborting ==
    /\ IF cleanupInterval # 0
         THEN /\ timers' = timers \ {cleanupInterval}
              /\ cleanupInterval' = 0
         ELSE UNCHANGED <<timers, cleanupInterval>>
    /\ stopped' = TRUE
    /\ h' = [q \in Procs |->
               IF h[q].op = "sweep" /\ h[q].pc = "revoke"
                 THEN [h[q] EXCEPT !.stopSeen = TRUE, !.pc = "done",
                                   !.res = [NoRes EXCEPT !.status = "returned"]]
                 ELSE h[q]]
    /\ UNCHANGED <<storage, tokenCounter, now, minted, serverUp, issued, removedIds,
                   okIssues, config, handles, tokenLease, jwtPayload>>

\* stop(): clearInterval on the handle held, if one is held; it touches no
\* sweep that is in flight (the history notes which sweeps it found suspended)
stop ==
    /\ IF cleanupInterval # 0
         THEN /\ timers' = timers \ {cleanupInterval}
              /\ cleanupInterval' = 0
         ELSE UNCHANGED <<timers, cleanupInterval>>
    /\ stopped' = TRUE
    /\ h' = [q \in Procs |->
               IF h[q].op = "sweep" /\ h[q].pc = "revoke"
                 THEN [h[q] EXCEPT !.stopSeen = TRUE]
                 ELSE h[q]]
    /\ UNCHANGED <<storage, tokenCounter, now, minted, serverUp, issued, removedIds,
                   okIssues, config, handles, tokenLease, jwtPayload>>

\* a one-shot timer (setTimeout) in place of the interval timer: the runtime
\* drops it when it has fired
TimerFiresOnce(p, id) ==
    /\ serverUp
    /\ Free(p)
    /\ id \in timers
    /\ timers' = timers \ {id}
    /\ h' = [h EXCEPT ![p] = BeginSweep([Idle EXCEPT !.op = "sweep", !.round = 1,
                                                      !.timer = id,
                                                      !.afterStop = stopped],
                                        storage, now)]
    /\ UNCHANGED <<storage, tokenCounter, now, minted, serverUp, issued, removedIds, okIssues,
                   config, cleanupInterval, handles, stopped, tokenLease, jwtPayload>>

\* a timer whose callback has to wait for the upstream calls in flight, as
\* under blocking I/O
TimerFiresWhenIdle(p, id) ==
    /\ serverUp
    /\ Free(p)
    /\ id \in timers
    /\ \A q \in Procs : h[q].pc \notin {"exchange", "revoke"}
    /\ h' = [h EXCEPT ![p] = BeginSweep([Idle EXCEPT !.op = "sweep", !.round = 1,
                                                      !.timer = id,
                                                      !.afterStop = stopped],
                                        storage, now)]
    /\ UNCHANGED <<storage, tokenCounter, now, minted, serverUp, issued, removedIds, okIssues>>
    /\ UNCHANGED lease

\* an active interval timer fires: its callback calls cleanupExpiredTokens()
\* and does not await it
TimerFires(p, id) ==
    /\ serverUp
    /\ Free(p)
    /\ id \in timers
    /\ h' = [h EXCEPT ![p] = BeginSweep([Idle EXCEPT !.op = "sweep", !.round = 1,
                                                      !.timer = id,
                                                      !.afterStop = stopped],
                                        storage, now)]
    /\ UNCHANGED <<storage, tokenCounter, now, minted, serverUp, issued, removedIds, okIssues>>
    /\ UNCHANGED lease

\* ---- construction and startup: new TokenLease(config), TokenLease.start() -
\* the constructor with the cleanup timer started before the validation
TokenLeaseEager(options, environment) ==
    /\ tokenLease = NotConstructed
    /\ LET c == loadDefaults(options, environment)
       IN /\ config' = c
          /\ handles' = handles + 1
          /\ timers' = timers \cup {handles + 1}
          /\ cleanupInterval' = handles + 1
          /\ tokenLease' = IF validate(c) THEN Built
                           ELSE [NotConstructed EXCEPT !.thrown = validateError(c)]
    /\ UNCHANGED <<storage, tokenCounter, now, minted, serverUp, h, issued, removedIds,
                   okIssues, stopped, jwtPayload>>

\* new TokenLease(config): loadDefaults, validate, and only when validate has
\* returned the private key, the registry, the services, the routes and
\* tokenCleanupService.start(); when validate throws the constructor ends there
TokenLease(options, environment) ==
    /\ tokenLease = NotConstructed
    /\ LET c == loadDefaults(options, environment)
       IN /\ config' = c
          /\ IF validate(c)
               THEN /\ tokenLease' = Built
                    /\ handles' = handles + 1
                    /\ timers' = timers \cup {handles + 1}
                    /\ cleanupInterval' = handles + 1
               ELSE /\ tokenLease' = [NotConstructed EXCEPT !.thrown = validateError(c)]
                    /\ UNCHANGED <<handles, timers, cleanupInterval>>
    /\ UNCHANGED <<storage, tokenCounter, now, minted, serverUp, h, issued, removedIds,
                   okIssues, stopped, jwtPayload>>

\* TokenLease.start(): app.listen on the constructed object
listen ==
    /\ tokenLease.routes
    /\ tokenLease.server = "none"
    /\ tokenLease' = [tokenLease EXCEPT !.server = "listening"]
    /\ UNCHANGED <<storage, tokenCounter, now, minted, serverUp, h, issued, removedIds,
                   okIssues, config, cleanupInterval, timers, handles, stopped, jwtPayload>>

\* requests reach the routes only while the server listens
Serving == tokenLease.server = "listening"

\* ---- the signed assertion: generateJWT -----------------------------------
\* the clock within the window of the assertion checks
JwtTick ==
    /\ now < JwtMaxTime
    /\ now' = now + 1
    /\ UNCHANGED <<storage, tokenCounter, minted, serverUp, h, issued, removedIds, okIssues>>
    /\ UNCHANGED lease

\* one call of generateJWT(); the clock stands at its second read when it ends
GenerateJWT(t1, t2) ==
    /\ now <= t1 /\ t1 <= t2 /\ t2 <= JwtMaxTime
    /\ jwtPayload' = generateJWT(t1, t2, config.appId)
    /\ now' = t2
    /\ UNCHANGED <<storage, tokenCounter, minted, serverUp, h, issued, removedIds, okIssues,
                   config, cleanupInterval, timers, handles, stopped, tokenLease>>

\* a constructed service at any clock value of the window, no assertion built
JwtInit ==
    /\ storage = << >>
    /\ tokenCounter = 0
    /\ now \in JwtMinTime..JwtMaxTime
    /\ minted = 0
    /\ serverUp = TRUE
    /\ h = [p \in Procs |-> Idle]
    /\ issued = << >>
    /\ removedIds = {}
    /\ okIssues = 0
    /\ jwtPayload = NoPayload
    /\ \E options \in Options, environment \in Environments :
          Constructed(options, environment)

\* ==== properties ==========================================================
Sweeping(p) == h[p].op = "sweep"
Deleting(p) == h[p].op = "delete"
Clearing(p) == h[p].op = "clear"
Issuing(p) == h[p].op = "issue"
Done(p) == h[p].pc = "done"
ListIds(p) ==
    {h[p].list[k].tokenId :
        k \in 1..Len(h[p].list)}

\* C1: in delete by id, delete by owner and the sweep, every record the
\* operation has taken out of the registry is one whose secret the same
\* operation has already had a revoke call return for, stale or not.
RevokeBeforeRemoval ==
    \A p \in Procs :
        (Deleting(p) \/ Sweeping(p)) =>
            \A e \in h[p].removed : e.token \in h[p].returned /\ e.token \in h[p].calls

\* a delete removed a record that is not stale while a sweep removed one
RevokeBeforeRemovalWitness ==
    \E p, q \in Procs :
        /\ Deleting(p) /\ Done(p)
        /\ \E e \in h[p].removed : e.expiresAt >= now
        /\ Sweeping(q) /\ h[q].removed # {}

\* C2: every record a clearAll takes out of the registry is one it made a
\* revoke call for before removing it, also when issue requests insert
\* records while it is suspended.
ClearRevokesWhatItRemoves ==
    \A p \in Procs :
        Clearing(p) => \A e \in h[p].removed : e.token \in h[p].calls

\* C3: when a sweep and a delete by id (or clearAll) race on a record, the
\* record leaves the registry once; the later delete of the id changes
\* nothing; an id that left never comes back; both end without an error.
RaceState ==
    /\ \A p, q \in Procs : p # q => h[p].removed \cap h[q].removed = {}
    /\ removedIds \cap Keys(storage) = {}
    /\ \A p \in Procs : (h[p].removed # {} \/ h[p].missed # {}) =>
          /\ {e.tokenId : e \in h[p].removed} \cup h[p].missed \subseteq removedIds
          /\ Done(p) => h[p].res.status \in {"200", "returned"} /\ h[p].res.success
    /\ serverUp

\* the step is p's continuation after its pending revoke call
Resumed(p) ==
    /\ h[p].pc = "revoke"
    /\ h'[p].pc # "revoke" \/ h'[p].i # h[p].i \/ h'[p].round # h[p].round

RaceStep ==
    \A p \in Procs :
        (/\ Resumed(p)
         /\ (Sweeping(p) \/ Deleting(p))
         /\ h[p].list[h[p].i].tokenId \notin Keys(storage))
        => storage' = storage

UniqueIncreasingIds ==
    /\ \A i, j \in 1..Len(issued) :
          i < j => /\ issued[i] # issued[j]
                   /\ CounterOf(issued[i]) < CounterOf(issued[j])
    /\ tokenCounter = Len(issued)
    /\ Keys(storage) \subseteq Range(issued)
    /\ Len(storage) = Cardinality(Keys(storage))

\* a clearAll removed the first record and a record stored after it, in the
\* same millisecond as the first, is in the registry
UniqueIncreasingIdsWitness ==
    /\ Len(issued) = 2 /\ Len(storage) = 1
    /\ storage[1].tokenId = issued[2]
    /\ \E p \in Procs :
          /\ Clearing(p) /\ Done(p)
          /\ \E e \in h[p].removed :
                e.tokenId = issued[1] /\ e.createdAt = storage[1].createdAt

RevocationIndependence ==
    /\ \A o \in RevokeOutcomes \ {"204"} : revokeToken(o) = "false"
    /\ \A p \in Procs :
          (/\ Deleting(p) \/ Clearing(p) \/ Sweeping(p)
           /\ Done(p) /\ Len(h[p].list) > 0 /\ h[p].upOk = 0)
          => /\ h[p].res.success
             /\ h[p].res.status \in {"200", "returned"}
             /\ h[p].res.revokedCount = 0
             /\ h[p].branch = "id" => h[p].res.revoked = "false"
             /\ ListIds(p) \cap Keys(storage) = {}
             /\ serverUp

\* a delete by id and a bulk operation over two records, all revokes failed
RevocationIndependenceWitness ==
    \E p, q \in Procs :
        /\ Deleting(p) /\ h[p].branch = "id" /\ Done(p)
        /\ h[p].upOk = 0 /\ h[p].removed # {}
        /\ Clearing(q) \/ Sweeping(q)
        /\ Done(q) /\ h[q].upOk = 0 /\ Len(h[q].list) > 0

\* C7: when the upstream exchange fails, issue fails with the error it
\* received, after one exchange call; it inserts nothing and leaves the
\* registry and the id counter as they were; the handler answers 500 with
\* success false and the server stays up.
ExchangeFailState ==
    \A p \in Procs :
        (Issuing(p) /\ Done(p) /\ ~h[p].res.success) =>
            /\ h[p].res.status = "500"
            /\ h[p].upErr \in ExchangeErrors
            /\ h[p].res.error = h[p].upErr
            /\ h[p].exch = 1
            /\ h[p].inserted = {}
            /\ serverUp

ExchangeFailStep ==
    \A p \in Procs :
        (h[p].pc = "exchange" /\ h'[p].pc = "done") =>
            /\ storage' = storage
            /\ tokenCounter' = tokenCounter
            /\ issued' = issued
            /\ serverUp'

\* C7: a failed issue has answered 500 with the upstream error after one
\* exchange and no insert (ExchangeFailState), and the step in which it fails
\* leaves the registry and the counter unchanged (ExchangeFailStep).
ExchangeFailure == [](ExchangeFailState) /\ [][ExchangeFailStep]_vars

\* an issue failed while the registry held a record, and another request is
\* being served
ExchangeFailureWitness ==
    \E p, q \in Procs :
        /\ Issuing(p) /\ Done(p) /\ h[p].res.status = "500"
        /\ Len(storage) > 0
        /\ Issuing(q) /\ Done(q) /\ h[q].res.success

\* C8: a sweep revokes and removes only records that were in the registry
\* at its snapshot with expiresAt below the snapshot time; a record stored
\* after the snapshot is not touched.
SweepOnlyStale ==
    \A p \in Procs :
        Sweeping(p) =>
            /\ \A k \in 1..Len(h[p].list) :
                  h[p].list[k].tokenData.expiresAt < h[p].snapTime
            /\ \A e \in h[p].removed : e.expiresAt < h[p].snapTime /\ e \in h[p].stale
            /\ h[p].calls \subseteq {e.token : e \in h[p].stale}
            /\ h[p].returned \subseteq h[p].calls

\* a sweep removed a record and left one whose expiresAt equals the snapshot
\* time
SweepOnlyStaleWitness ==
    \E p \in Procs :
        /\ Sweeping(p) /\ h[p].removed # {}
        /\ \E e \in Range(storage) :
              e.expiresAt = h[p].snapTime /\ e.createdAt < h[p].snapTime

\* C9: when a sweep call has completed, no record that was in the registry
\* with expiresAt below the snapshot time is still there, whatever its
\* revoke call returned.
SweepRemovesStale ==
    \A p \in Procs :
        (Sweeping(p) /\ Done(p)) =>
            \A e \in h[p].stale : e.tokenId \notin Keys(storage)

\* a completed sweep whose revoke calls all failed
SweepRemovesStaleWitness ==
    \E p \in Procs :
        /\ Sweeping(p) /\ Done(p) /\ h[p].round = 1
        /\ h[p].stale # {} /\ h[p].upOk = 0

\* C10 as stated: the second of two sweep calls in immediate succession, with
\* no issuance in between, removes nothing and makes no revoke call.
SecondSweepIdle ==
    \A p \in Procs :
        (Sweeping(p) /\ h[p].round = 2 /\ ~h[p].storedSince) =>
            /\ h[p].calls = {} /\ h[p].removed = {}
            /\ Done(p) => h[p].res.count = 0 /\ h[p].res.revokedCount = 0

\* C10 amended: the second call touches only records whose expiresAt is not
\* below the first call's snapshot time, and nothing at all when the clock
\* reads the same at both snapshots.
SecondSweepOnlyNewlyStale ==
    \A p \in Procs :
        (Sweeping(p) /\ h[p].round = 2 /\ ~h[p].storedSince) =>
            /\ \A k \in 1..Len(h[p].list) :
                  h[p].list[k].tokenData.expiresAt >= h[p].snapTime1
            /\ h[p].snapTime = h[p].snapTime1 =>
                  /\ h[p].calls = {} /\ h[p].removed = {} /\ Done(p)
                  /\ h[p].res.count = 0 /\ h[p].res.revokedCount = 0

\* a second call at the clock value of the first, which had removed a
\* record, with a record still stored
SecondSweepOnlyNewlyStaleWitness ==
    \E p \in Procs :
        /\ Sweeping(p) /\ h[p].round = 2 /\ Done(p) /\ ~h[p].storedSince
        /\ h[p].snapTime = h[p].snapTime1
        /\ h[p].cleaned1 > 0
        /\ Len(storage) > 0

\* C11: once stop() has been called (and start() not again), no interval
\* timer is active and no sweep in flight was started by a timer after the
\* stop, however many start() calls came before it.
StopLeavesNoTimer ==
    stopped =>
        /\ timers = {}
        /\ \A p \in Procs : (Sweeping(p) /\ h[p].timer # 0) => ~h[p].afterStop

Listing(p) == h[p].op = "list"

\* C12: every record in the registry has expiresAt equal to its createdAt plus
\* the configured tokenLifespan, exactly.
ExpiresAtIsCreatedAtPlusLifespan ==
    \A e \in Range(storage) : e.expiresAt = e.createdAt + config.tokenLifespan

\* C13: in a list view, a record with createdAt T is reported isExpired=false
\* when observed before T + tokenLifespan and isExpired=true when observed
\* after it, and getExpiredTokens at the observation time selects the record
\* exactly when isExpired is true.
ExpiryCorrectness ==
    \A p \in Procs :
        (Listing(p) /\ Done(p)) =>
            \A k \in 1..Len(h[p].list) :
                LET e == h[p].list[k]
                    t == h[p].reads[2 * k - 1]
                    isExpired == h[p].res.tokens[k].isExpired
                    swept == {x.tokenId : x \in Range(getExpiredTokens(h[p].list, t))}
                IN /\ t < e.createdAt + config.tokenLifespan => ~isExpired
                   /\ t > e.createdAt + config.tokenLifespan => isExpired
                   /\ isExpired <=> e.tokenId \in swept

\* C14: every record in the registry has expiresAt strictly greater than its
\* createdAt, whatever configuration the constructor accepted.
ExpiresAfterCreated ==
    \A e \in Range(storage) : e.expiresAt > e.createdAt

\* C15: a stale record (expiresAt < now) that is in the registry is returned by
\* has/get, getAll and getByClientId and counts in size; a list view taken
\* while it was stale holds it, marked isExpired=true, and counts it in
\* totalTokens.
StaleStaysVisible ==
    /\ \A e \in Range(storage) :
          e.expiresAt < now =>
              /\ has(storage, e.tokenId) /\ get(storage, e.tokenId) = e
              /\ e \in Range(getAll(storage))
              /\ [tokenId |-> e.tokenId, tokenData |-> e]
                    \in Range(getByClientId(storage, e.clientId))
              /\ sizeOf(storage) = Cardinality(Keys(storage))
    /\ \A p \in Procs :
          (Listing(p) /\ Done(p)) =>
              /\ h[p].res.totalTokens = Len(h[p].list)
              /\ \A e \in Range(h[p].list) :
                    e.expiresAt < h[p].snapTime =>
                        \E k \in 1..Len(h[p].res.tokens) :
                            /\ h[p].res.tokens[k].tokenId = e.tokenId
                            /\ h[p].res.tokens[k].expiresAt = toISOString(e.expiresAt)
                            /\ h[p].res.tokens[k].isExpired

\* a list view of two records, the first stale and the second not, with the
\* stale one still in the registry
StaleStaysVisibleWitness ==
    \E p \in Procs :
        /\ Listing(p) /\ Done(p) /\ Len(h[p].res.tokens) = 2
        /\ h[p].res.tokens[1].isExpired /\ ~h[p].res.tokens[2].isExpired
        /\ h[p].list[1].expiresAt < h[p].snapTime
        /\ Len(storage) = 2 /\ storage[1].expiresAt < now

\* the records of s are all in t, unchanged and in the same order
Kept(s, t) == Len(t) >= Len(s) /\ \A k \in 1..Len(s) : t[k] = s[k]

\* A record leaves the registry only in the continuation of a delete by
\* id, delete by owner, clearAll or sweep after its revoke call; a step of
\* issue, GET /tokens or GET /health, and the step in which a delete, clearAll
\* or sweep looks its records up (has, get, getAll, getByClientId,
\* getExpiredTokens), keeps every record in the registry as it was.
RemovalStep ==
    /\ Gone(storage, storage') # {} =>
          \E p \in Procs :
              /\ Resumed(p)
              /\ Deleting(p) \/ Clearing(p) \/ Sweeping(p)
              /\ (Deleting(p) \/ Sweeping(p)) =>
                    {e.tokenId : e \in Gone(storage, storage')} = {h[p].list[h[p].i].tokenId}
    /\ \A e \in Range(storage) : e.tokenId \in Keys(storage') => e \in Range(storage')
    /\ \A p \in Procs :
          (/\ h'[p] # h[p]
           /\ \/ h'[p].op \in {"issue", "list", "health"}
              \/ h[p].pc = "idle" /\ h'[p].pc = "revoke")
          => Kept(storage, storage')

\* C16: every step satisfies RemovalStep: only the continuation of a delete,
\* clearAll or sweep after its revoke call takes a record out of the registry.
OnlyDestructorsRemove == [][RemovalStep]_vars

\* an issue and a list view have been answered after a destructor removed a
\* record, and the records of the list view are all still stored
OnlyDestructorsRemoveWitness ==
    \E p, q \in Procs :
        /\ Listing(p) /\ Done(p) /\ Len(h[p].list) > 0
        /\ ListIds(p) \subseteq Keys(storage)
        /\ Issuing(q) /\ Done(q) /\ h[q].res.success
        /\ removedIds # {}

OwnerDelete(p) == Deleting(p) /\ h[p].branch = "owner"
DirectOwnerDelete(p) == h[p].op = "deleteByClientId"

\* the records of s whose owner is not c, in order
NotOwnedBy(s, c) == LET Other(e) == e.clientId # c IN SelectSeq(s, Other)

OwnerDeleteState ==
    /\ \A c \in DeleteClients \cup {"nobody"} :
          LET r == deleteByClientId(storage, c)
          IN /\ r.storage = NotOwnedBy(storage, c)
             /\ {item.tokenData : item \in Range(r.tokensToDelete)}
                   = {e \in Range(storage) : e.clientId = c}
    /\ \A p \in Procs :
          (OwnerDelete(p) \/ DirectOwnerDelete(p)) =>
              /\ \A k \in 1..Len(h[p].list) :
                    h[p].list[k].tokenData.clientId = h[p].identifier
              /\ \A e \in h[p].removed :
                    e.clientId = h[p].identifier /\ e.tokenId \in ListIds(p)
              /\ (Done(p) /\ h[p].res.success) =>
                    /\ ListIds(p) \cap Keys(storage) = {}
                    /\ ListIds(p) \subseteq removedIds
                    /\ h[p].res.count = Len(h[p].list)

OwnerDeleteStep ==
    \A p \in Procs :
        \/ OwnerDelete(p) /\ Resumed(p)
        \/ h'[p] # h[p] /\ h'[p].op = "deleteByClientId"
        => /\ \A e \in Range(storage) :
                 e.clientId # h'[p].identifier => e \in Range(storage')
           /\ storage' = IF OwnerDelete(p)
                           THEN delete(storage, h[p].list[h[p].i].tokenId)
                           ELSE NotOwnedBy(storage, h'[p].identifier)

\* C17: delete by owner (the owner branch of DELETE /tokens/:identifier and
\* TokenStorage.deleteByClientId) removes exactly the records of that owner
\* that were in the registry at its lookup, and each of its steps leaves the
\* records of every other owner in the registry unchanged.
OwnerDeleteExact == [](OwnerDeleteState) /\ [][OwnerDeleteStep]_vars

\* a finished DELETE by owner removed the owner's record and a record of
\* another owner is still stored
OwnerDeleteExactWitness ==
    \E p \in Procs :
        /\ OwnerDelete(p) /\ Done(p) /\ h[p].removed # {}
        /\ \E e \in Range(storage) : e.clientId # h[p].identifier

\* the identifier is no stored id and no stored owner
Unknown(identifier) ==
    /\ identifier \notin Keys(storage)
    /\ \A e \in Range(storage) : e.clientId # identifier

\* a DELETE /tokens/:identifier that found nothing
Miss(p) == Deleting(p) /\ Done(p) /\ h[p].branch = "owner" /\ Len(h[p].list) = 0

MissState ==
    /\ \A identifier \in Identifiers :
          /\ identifier \notin Keys(storage) =>
                /\ ~deleteResult(storage, identifier)
                /\ delete(storage, identifier) = storage
          /\ (\A e \in Range(storage) : e.clientId # identifier) =>
                /\ deleteByClientId(storage, identifier).tokensToDelete = << >>
                /\ deleteByClientId(storage, identifier).storage = storage
    /\ \A p \in Procs :
          Miss(p) =>
              /\ h[p].res.status = "200" /\ ~h[p].res.success
              /\ h[p].calls = {} /\ h[p].removed = {}
              /\ serverUp

MissStep ==
    \A p \in Procs, identifier \in Identifiers :
        (/\ Unknown(identifier)
         /\ h[p].pc = "idle" /\ h'[p].op = "delete" /\ h'[p].identifier = identifier)
        => /\ storage' = storage
           /\ Miss(p)'
           /\ \A q \in Procs \ {p} : h'[q] = h[q]

\* C18: a DELETE whose identifier is no stored id and no stored owner makes no
\* revoke call, leaves the registry as it was and answers 200 with
\* success=false; delete on an absent id returns false and deleteByClientId on
\* an owner without records returns an empty list, both leaving the registry
\* unchanged.
DeleteMiss == [](MissState) /\ [][MissStep]_vars

\* a DELETE with the id of a record that was removed before, answered while
\* the registry holds a record
DeleteMissWitness ==
    \E p \in Procs :
        /\ Miss(p) /\ h[p].identifier \in removedIds
        /\ Len(storage) > 0

IdDelete(p) == Deleting(p) /\ h[p].branch = "id"

IdFirstState ==
    \A p \in Procs :
        /\ IdDelete(p) =>
              /\ Len(h[p].list) = 1
              /\ h[p].list[1].tokenId = h[p].identifier
              /\ h[p].list[1].tokenData.tokenId = h[p].identifier
              /\ h[p].calls = {h[p].list[1].tokenData.token}
              /\ h[p].removed \subseteq {h[p].list[1].tokenData}
        /\ OwnerDelete(p) =>
              /\ \A k \in 1..Len(h[p].list) :
                    h[p].list[k].tokenData.clientId = h[p].identifier
              /\ h[p].calls \subseteq {item.tokenData.token : item \in Range(h[p].list)}
        /\ Deleting(p) => h[p].identifier # ""
        /\ Clearing(p) => h[p].identifier = ""

IdFirstStep ==
    \A p \in Procs :
        /\ (h[p].pc = "idle" /\ h'[p].op = "delete") =>
              IF h'[p].identifier \in Keys(storage)
                THEN /\ h'[p].branch = "id" /\ h'[p].pc = "revoke"
                     /\ h'[p].list = <<[tokenId |-> h'[p].identifier,
                                         tokenData |-> get(storage, h'[p].identifier)]>>
                ELSE /\ h'[p].branch = "owner"
                     /\ h'[p].list = getByClientId(storage, h'[p].identifier)
        /\ (IdDelete(p) /\ Resumed(p)) =>
              /\ storage' = delete(storage, h[p].identifier)
              /\ \A e \in Range(storage) :
                    e.tokenId # h[p].identifier => e \in Range(storage')

\* C19: DELETE /tokens/:identifier takes the identifier as an id when a record
\* with that id is stored: it revokes and removes that one record and no
\* other, records owned by a client of that name included; only when no
\* record has the id does it take the records of the owner of that name; a
\* DELETE /tokens without identifier runs clearAll.
IdBeforeOwner == [](IdFirstState) /\ [][IdFirstStep]_vars

\* a finished DELETE removed the record whose id is the identifier while a
\* record owned by a client of that name is still stored
IdBeforeOwnerWitness ==
    \E p \in Procs :
        /\ IdDelete(p) /\ Done(p) /\ h[p].removed # {}
        /\ \E e \in Range(storage) : e.clientId = h[p].identifier

\* a clearAll that found the registry empty
ClearedEmpty(p) == Clearing(p) /\ Len(h[p].list) = 0

ClearEmptyState ==
    \A p \in Procs :
        ClearedEmpty(p) =>
            /\ Done(p)
            /\ h[p].res.status = "200" /\ h[p].res.success
            /\ h[p].res.count = 0 /\ h[p].res.revokedCount = 0
            /\ h[p].calls = {} /\ h[p].returned = {} /\ h[p].removed = {}

ClearEmptyStep ==
    \A p \in Procs :
        (h[p].pc = "idle" /\ h'[p].op = "clear" /\ Len(storage) = 0) =>
            /\ storage' = << >>
            /\ ClearedEmpty(p)'
            /\ h'[p].res.count = 0 /\ h'[p].res.revokedCount = 0
            /\ h'[p].calls = {}

\* C20: clearAll on an empty registry answers count 0 and revokedCount 0,
\* makes no revoke call and leaves the registry empty.
ClearEmpty == [](ClearEmptyState) /\ [][ClearEmptyStep]_vars

\* a clearAll answered on a registry that records had been issued into and
\* removed from
ClearEmptyWitness ==
    \E p \in Procs :
        /\ ClearedEmpty(p) /\ Done(p)
        /\ tokenCounter > 0 /\ removedIds # {} /\ Len(storage) = 0

Threw == tokenLease.thrown # ""

FailFastState ==
    /\ tokenLease # NotConstructed =>
          (Threw <=> (config.appId = "" \/ config.installationId = ""
                        \/ ~config.keyFileExists))
    /\ Threw =>
          /\ timers = {} /\ handles = 0 /\ cleanupInterval = 0
          /\ ~tokenLease.privateKey /\ ~tokenLease.tokenStorage /\ ~tokenLease.routes
          /\ tokenLease.server = "none"
          /\ storage = << >> /\ \A p \in Procs : h[p] = Idle
    /\ Serving => tokenLease.routes /\ tokenLease.tokenStorage /\ ~Threw

FailFastStep == Threw => (tokenLease' = tokenLease /\ h' = h /\ timers' = timers)

\* C21: when the application id, the installation id or the key file is
\* missing the constructor throws, and then no cleanup timer has been started,
\* no registry and no route exists, and the server never listens or serves.
FailFast == [](FailFastState) /\ [][FailFastStep]_vars

\* the constructor threw for the key file or the installation id alone, and
\* the clock has run on since
FailFastWitness ==
    /\ Threw /\ config.appId # "" /\ now = MaxTime

Posting(p) == h[p].op = "post"

\* repositories is present in the body and is not an array of strings
Malformed(v) ==
    /\ v.type \notin {"undefined", "null"}
    /\ ~(isArray(v) /\ ~someNotString(v))

\* C22: a POST /token/:owner whose body has a repositories value that is not an
\* array of strings is answered 400, without an upstream exchange call and
\* without a record inserted.
MalformedScopeRejected ==
    \A p \in Procs :
        (Posting(p) /\ Malformed(h[p].repositories)) =>
            /\ Done(p) /\ h[p].res.status = "400" /\ ~h[p].res.success
            /\ h[p].exch = 0 /\ h[p].token = 0 /\ h[p].inserted = {}

Dashboard(p) == h[p].op = "dashboard"

\* C23: whenever getRateLimit has obtained its temporary token, it has made a
\* revoke call for that token by the time it returns, whether GET /rate_limit
\* succeeded or failed; it returns a result or null without throwing, and the
\* temporary token is never put in the registry.
ThrowawayRevoked ==
    /\ serverUp
    /\ \A p \in Procs :
          Dashboard(p) =>
              /\ (Done(p) /\ h[p].token # 0) => h[p].token \in h[p].calls
              /\ Done(p) => h[p].res.status = "200" /\ h[p].res.rateLimit \in {"info", "null"}
              /\ h[p].inserted = {}
              /\ \A e \in Range(storage) : e.token # h[p].token

\* C24: any two records of one owner in the registry are both returned by
\* getByClientId and have distinct ids and distinct createdAt values.
TwoIssuesDistinct ==
    \A i, j \in 1..Len(storage) :
        (i < j /\ storage[i].clientId = storage[j].clientId) =>
            /\ storage[i].tokenId # storage[j].tokenId
            /\ storage[i].createdAt # storage[j].createdAt
            /\ {storage[i], storage[j]} \subseteq
                  {item.tokenData :
                      item \in Range(getByClientId(storage, storage[i].clientId))}

\* the owner's records that have not expired at clock value t
ValidFor(clientId, t) ==
    {e \in Range(storage) : e.clientId = clientId /\ ~(t > e.expiresAt)}

ReuseStep ==
    \A p \in Procs :
        (/\ h[p].pc = "idle" /\ h'[p].op = "issue"
         /\ ValidFor(h'[p].identifier, now) # {})
        => /\ h'[p].exch = 0
           /\ h'[p].pc = "done"
           /\ h'[p].res.tokenId \in {e.tokenId : e \in ValidFor(h'[p].identifier, now)}

\* C25: a token request for a client that has a stored token which is still
\* valid is answered with that stored token, without an upstream exchange; a
\* new token is generated only when the client has no valid stored token.
ReuseWhileValid == [][ReuseStep]_vars

Bulk(p) == OwnerDelete(p) \/ Clearing(p) \/ Sweeping(p)

\* C26: whenever a delete by owner, a clearAll or a sweep is suspended on a
\* revoke call, every record whose revoke call it has already had returned is
\* gone from the registry.
RemovedBeforeNextRevoke ==
    \A p \in Procs :
        (Bulk(p) /\ h[p].pc = "revoke") =>
            \A k \in 1..(h[p].i - 1) : h[p].list[k].tokenId \notin Keys(storage)

Revoking(p) == Deleting(p) \/ Clearing(p) \/ Sweeping(p)

\* C27: no two operations in flight (delete by id, delete by owner, clearAll,
\* sweep) have made a revoke call for the same secret.
RevokedAtMostOnce ==
    \A p, q \in Procs :
        (p # q /\ Revoking(p) /\ Revoking(q)) => h[p].calls \cap h[q].calls = {}

\* C28: at most one sweep is suspended on a revoke call at any time.
OneSweepInFlight ==
    Cardinality({p \in Procs : Sweeping(p) /\ h[p].pc = "revoke"}) <= 1

\* C29: the cleanedCount of a sweep call equals the number of records that
\* call has removed from the registry; its revokedCount equals the number of
\* its revoke calls that returned true and does not exceed the removed count.
SweepCountsItsRemovals ==
    \A p \in Procs :
        Sweeping(p) =>
            /\ h[p].cleanedCount = Cardinality(h[p].removed)
            /\ h[p].revokedCount = h[p].upOk
            /\ h[p].revokedCount <= Cardinality(h[p].removed)

ClearCountState ==
    \A p \in Procs :
        (Clearing(p) /\ Done(p)) => h[p].res.count = Cardinality(h[p].removed)

ClearCountStep ==
    \A p \in Procs :
        (h'[p].op = "clear" /\ h[p].pc # "done" /\ h'[p].pc = "done") => storage' = << >>

\* C30: the count a clearAll reports equals the number of records that
\* clearAll removed from the registry, and the registry is empty in the state
\* in which it responds.
ClearCountsItsRemovals == [](ClearCountState) /\ [][ClearCountStep]_vars

\* the records of the owner that a delete by owner p did not find at its
\* lookup: they were stored while p was suspended on a revoke call
StoredDuring(p) ==
    {e \in Range(storage) : e.clientId = h[p].identifier /\ e.tokenId \notin ListIds(p)}

LateRecordState ==
    \A p \in Procs :
        OwnerDelete(p) =>
            /\ \A e \in StoredDuring(p) : e.token \notin h[p].calls
            /\ \A e \in h[p].removed : e.tokenId \in ListIds(p)

LateRecordStep ==
    \A p \in Procs :
        OwnerDelete(p) /\ Resumed(p) =>
            \A e \in StoredDuring(p) : e \in Range(storage')

\* C31: a record stored for owner X while a delete by owner for X is suspended
\* on a revoke call is not touched by that delete: the operation makes no
\* revoke call for its secret, none of its steps removes it, and so the record
\* is in the registry after the step in which the delete by owner completes.
LateRecordSurvives == [](LateRecordState) /\ [][LateRecordStep]_vars

\* a delete by owner has completed and removed a record, and a record of the
\* same owner that was stored during it is in the registry
LateRecordSurvivesWitness ==
    \E p \in Procs :
        /\ OwnerDelete(p) /\ Done(p) /\ h[p].res.success
        /\ h[p].removed # {}
        /\ StoredDuring(p) # {}

\* the record with this id is in the registry and is stale
StaleInRegistry(tokenId) ==
    \E e \in Range(storage) : e.tokenId = tokenId /\ e.expiresAt < now

\* the ids store() can assign within the bounds
PossibleIds == {TokenIdString(k, t) : k \in 1..MaxIssue, t \in 0..MaxTime}

\* C32: with the interval timer firing again and again and every revoke call
\* returning, every record that is in the registry and stale is eventually
\* removed from the registry, unless the cleanup service is stopped
\* (cleanupInterval is null) in the meantime.
StaleEventuallyRemoved ==
    \A tokenId \in PossibleIds :
        StaleInRegistry(tokenId) ~> (tokenId \notin Keys(storage) \/ cleanupInterval = 0)

\* a sweep started by the timer has removed a stale record, and the cleanup
\* service has not been stopped
StaleEventuallyRemovedWitness ==
    \E p \in Procs :
        /\ Sweeping(p) /\ h[p].timer # 0 /\ Done(p)
        /\ \E e \in h[p].removed : e.expiresAt < h[p].snapTime
        /\ cleanupInterval # 0 /\ ~stopped

\* stop() was called while sweep p was suspended on a revoke call
StoppedMidSweep(p) == Sweeping(p) /\ h[p].stopSeen

SweepAfterStopState ==
    \A p \in Procs :
        StoppedMidSweep(p) => {e.tokenId : e \in h[p].removed} \subseteq ListIds(p)

SweepAfterStopStep ==
    \A p \in Procs :
        \* the call of stop() leaves the sweep where it is
        /\ (h'[p].stopSeen /\ ~h[p].stopSeen) => h'[p] = [h[p] EXCEPT !.stopSeen = TRUE]
        \* and its later continuations do what they do without a stop()
        /\ (StoppedMidSweep(p) /\ Resumed(p)) =>
              storage' = delete(storage, h[p].list[h[p].i].tokenId)

\* C33: stop() only clears the interval timer.  A sweep that is suspended on a
\* revoke call when stop() is called stays as it is; when its revoke calls
\* return it goes on to remove every record of its snapshot, and it removes
\* no record that is not in its snapshot.
SweepOutlivesStop ==
    /\ [](SweepAfterStopState)
    /\ [][SweepAfterStopStep]_vars
    /\ \A p \in Procs :
          (StoppedMidSweep(p) /\ h[p].pc = "revoke")
             ~> (StoppedMidSweep(p) /\ Done(p) /\ ListIds(p) \cap Keys(storage) = {})

\* a sweep that stop() found suspended has run to its end and removed the
\* records of its snapshot
SweepOutlivesStopWitness ==
    \E p \in Procs :
        /\ StoppedMidSweep(p) /\ Done(p)
        /\ h[p].removed # {}
        /\ {e.tokenId : e \in h[p].removed} = ListIds(p)

\* a record as store() writes it: id, the caller's four fields, createdAt
CompleteRecord(e) ==
    /\ DOMAIN e = {"tokenId", "clientId", "token", "expiresAt", "cached", "createdAt"}
    /\ e.tokenId \in PossibleIds
    /\ e.clientId \in Clients \cup DeleteClients
    /\ e.token \in 1..MaxIssue
    /\ e.expiresAt \in Int /\ e.createdAt \in 0..MaxTime

\* the step is a read of the registry by p: GET /tokens or GET /health
ReadBy(p) == h'[p] # h[p] /\ h'[p].op \in {"list", "health"}
\* the step is the one in which p's handleClearAllTokens calls clear()
ClearCalledBy(p) ==
    /\ h'[p] # h[p] /\ h'[p].op = "clear" /\ h'[p].pc = "done"
    /\ h'[p].res.status = "200"
\* the step is a call of deleteByClientId by p
DeleteByClientIdCalledBy(p) == h'[p] # h[p] /\ h'[p].op = "deleteByClientId"

AtomicState ==
    /\ \A k \in 1..Len(storage) : CompleteRecord(storage[k])
    /\ Cardinality(Keys(storage)) = Len(storage)
    /\ \A p \in Procs :
          h[p].op = "list" =>
              /\ \A k \in 1..Len(h[p].list) : CompleteRecord(h[p].list[k])
              /\ h[p].res.totalTokens = Len(h[p].list)
              /\ Len(h[p].res.tokens) = Len(h[p].list)

AtomicStep ==
    /\ \A p \in Procs :
          /\ ReadBy(p) =>
                /\ storage' = storage
                /\ h'[p].op = "list" =>
                      /\ h'[p].list = storage
                      /\ h'[p].res.totalTokens = Len(storage)
                      /\ \A k \in 1..Len(storage) :
                            h'[p].res.tokens[k].tokenId = storage[k].tokenId
                /\ h'[p].op = "health" => h'[p].res.storedTokens = Len(storage)
          /\ ClearCalledBy(p) => storage' = << >>
          /\ DeleteByClientIdCalledBy(p) =>
                storage' = NotOwnedBy(storage, h'[p].identifier)
    /\ okIssues' # okIssues =>
          \E e \in Range(storage') : CompleteRecord(e) /\ storage' = Append(storage, e)
    /\ (okIssues' = okIssues
          /\ \A p \in Procs : ~ClearCalledBy(p) /\ ~DeleteByClientIdCalledBy(p)) =>
          /\ Added(storage, storage') = {}
          /\ Cardinality(Gone(storage, storage')) <= 1
          /\ \E tokenId \in Keys(storage) \cup {""} : storage' = delete(storage, tokenId)

\* C34: every TokenStorage method runs within one step, so a read never sees
\* a mutation half done: every record a read finds is complete and under its
\* own key, a list view and a size are those of one registry state, store adds
\* one complete record, delete takes one record out, deleteByClientId takes
\* all of the owner's records out, and the step in which clear() runs leaves
\* the registry empty (no read sees some of the pre-clear records and not
\* others).
AtomicMutations == [](AtomicState) /\ [][AtomicStep]_vars

\* a list view taken while a clearAll is suspended in its revoke loop, before
\* its clear(): the view holds both records the clearAll is about to drop
AtomicMutationsWitness ==
    \E p, q \in Procs :
        /\ h[p].op = "list" /\ Done(p) /\ Len(h[p].list) = 2
        /\ Clearing(q) /\ h[q].pc = "revoke" /\ h[q].i = 2
        /\ h[p].list = h[q].list
        /\ h[p].res.totalTokens = 2

\* p is suspended on an upstream call
Suspended(p) == h[p].pc \in {"exchange", "revoke"}
Foreground(p) == h[p].op \in {"issue", "delete", "clear"}

\* C35: an invocation suspended on an upstream call blocks nothing.  While an
\* issue, delete or clearAll is suspended on its exchange or revoke call,
\* every active timer can fire and start a sweep; while a sweep is suspended
\* on a revoke call, an issue, a list view and a delete can be started.
SuspensionBlocksNothing ==
    \A p, q \in Procs :
        (Suspended(p) /\ Free(q)) =>
            /\ Foreground(p) => \A id \in timers : ENABLED TimerFires(q, id)
            /\ Sweeping(p) =>
                  /\ ENABLED StartIssue(q, "app1")
                  /\ ENABLED (\E reads \in SameInstant(2 * Len(storage), now) :
                                 ListTokens(q, reads))
                  /\ ENABLED DeleteRoute(q, "app1")
                  /\ ENABLED DeleteRoute(q, "")

\* a sweep started by the timer and a foreground issue are suspended on their
\* upstream calls together: whichever began second began while the other was
\* suspended
SuspensionBlocksNothingWitness ==
    \E p, q \in Procs :
        /\ Issuing(p) /\ h[p].pc = "exchange"
        /\ Sweeping(q) /\ h[q].timer # 0 /\ h[q].pc = "revoke"

\* Math.max(0, n)
Max0(n) == IF n > 0 THEN n ELSE 0

\* entry k of p's list view is the view of record k at the instant t
ViewedAt(p, k, t) ==
    LET item == h[p].res.tokens[k]
        e == h[p].list[k]
    IN /\ item.isExpired = (t > e.expiresAt)
       /\ item.timeUntilExpiry = Max0(e.expiresAt - t)

ListViewState ==
    \A p \in Procs :
        (Listing(p) /\ Done(p)) =>
            /\ h[p].res.totalTokens = Len(h[p].res.tokens)
            /\ Len(h[p].res.tokens) = Len(h[p].list)
            /\ \A k \in 1..Len(h[p].list) :
                  LET item == h[p].res.tokens[k]
                      e == h[p].list[k]
                  IN /\ item.tokenId = e.tokenId /\ item.clientId = e.clientId
                     /\ item.expiresAt = toISOString(e.expiresAt)
                     /\ item.createdAt = toISOString(e.createdAt)
                     /\ \E t \in h[p].reads[2 * k - 1]..h[p].reads[2 * k] : ViewedAt(p, k, t)
                     /\ item.timeUntilExpiry >= 0
                     /\ item.isExpired => item.timeUntilExpiry = 0

ListViewStep ==
    \A p \in Procs :
        (h'[p] # h[p] /\ h'[p].op = "list") => h'[p].list = storage /\ storage' = storage

\* C36: GET /tokens reports totalTokens equal to the number of entries it
\* lists, one entry per record of the registry and in the registry's order;
\* every entry is the view of its record at an instant `now` of the call
\* (isExpired = now > expiresAt, timeUntilExpiry = max(0, expiresAt - now)),
\* timeUntilExpiry is never negative, and isExpired implies timeUntilExpiry = 0.
ListViewConsistent == [](ListViewState) /\ [][ListViewStep]_vars

\* a list view of two records, one expired and one not, taken while the clock
\* advanced between the two reads of an entry
ListViewConsistentWitness ==
    \E p \in Procs :
        /\ Listing(p) /\ Done(p) /\ Len(h[p].list) = 2
        /\ \E k \in 1..2 : h[p].res.tokens[k].isExpired
        /\ \E k \in 1..2 : /\ ~h[p].res.tokens[k].isExpired
                           /\ h[p].reads[2 * k - 1] < h[p].reads[2 * k]

\* the records of s whose ids are keys of t, in the order of s
Surviving(s, t) == LET Stays(e) == e.tokenId \in Keys(t) IN SelectSeq(s, Stays)

ImmutableStep ==
    \* a record that stays keeps its id, owner, secret, createdAt and expiresAt,
    \* and the records that stay keep their order
    /\ Surviving(storage, storage') = Surviving(storage', storage)
    /\ \A e \in Range(storage) :
          e.tokenId \in Keys(storage') =>
              LET f == get(storage', e.tokenId)
              IN /\ f.clientId = e.clientId /\ f.token = e.token
                 /\ f.createdAt = e.createdAt /\ f.expiresAt = e.expiresAt
    \* a step is a read, an insert of records with new ids, or a delete
    /\ \/ storage' = storage
       \/ /\ Gone(storage, storage') = {}
          /\ \A e \in Added(storage, storage') : e.tokenId \notin removedIds
          /\ SubSeq(storage', 1, Len(storage)) = storage
       \/ /\ Added(storage, storage') = {}
          /\ storage' = Surviving(storage, storage')

\* C37: no step changes a stored record: from the step that inserts a record
\* to the step that removes it, its id, owner, secret, createdAt and expiresAt
\* stay as store() wrote them; every step leaves the registry as it is, or
\* appends records under new ids, or takes records out.
NeverMutatedInPlace == [][ImmutableStep]_vars

\* the first record issued is still stored as it was, after a later record
\* for the same owner was stored at a later clock value and removed again
\* and a list view was taken
NeverMutatedInPlaceWitness ==
    /\ Len(issued) = 2 /\ removedIds = {issued[2]}
    /\ Len(storage) = 1 /\ storage[1].tokenId = issued[1]
    /\ storage[1].expiresAt < now
    /\ \E p \in Procs : Listing(p) /\ Done(p) /\ Len(h[p].list) = 1

\* repositories is an array of strings, the empty array included
StringArray(v) == isArray(v) /\ ~someNotString(v)

\* C38: for every repositories value that is an array of strings, the empty
\* array included, the body of the exchange request carries exactly that
\* list; the body is without a restriction only when repositories is null or
\* absent.
ScopePassedThrough ==
    \A p \in Procs :
        (Posting(p) /\ h[p].exch = 1 /\ ~Malformed(h[p].repositories)) =>
            /\ StringArray(h[p].repositories) =>
                  /\ h[p].requestBody.restricted
                  /\ h[p].requestBody.repositories = h[p].repositories
            /\ ~h[p].requestBody.restricted =>
                  h[p].repositories.type \in {"undefined", "null"}

Built540(payload) ==
    /\ payload.iss = config.appId
    /\ payload.exp - payload.iat = 540
    /\ payload.exp - payload.iat < 600

\* C39 as stated: every assertion generateJWT builds has the configured
\* application id as issuer and an exp that is 540 seconds after its iat,
\* below the ceiling of 600 seconds, at every clock value.
AssertionLifetimeExact == jwtPayload # NoPayload => Built540(jwtPayload)

AssertionState ==
    jwtPayload # NoPayload =>
        /\ jwtPayload.iss = config.appId /\ jwtPayload.iss # ""
        /\ jwtPayload.exp - jwtPayload.iat >= JwtLifetime

AssertionStep ==
    jwtPayload' # jwtPayload =>
        \* exp is 540 seconds after the second in which the assertion is built
        /\ jwtPayload'.exp = (now' \div MsPerSecond) + JwtLifetime
        /\ jwtPayload'.exp - (now' \div MsPerSecond) < 600
        \* iat is a second of the call
        /\ jwtPayload'.iat \in (now \div MsPerSecond)..(now' \div MsPerSecond)
        \* and the two are 540 apart unless the second turned during the call
        /\ (now \div MsPerSecond = now' \div MsPerSecond) =>
              jwtPayload'.exp - jwtPayload'.iat = JwtLifetime

\* C39, amended: every assertion has the configured application id as
\* issuer; its exp is 540 seconds, below the ceiling of 600, after the clock
\* second at which it is built; its iat is the second of the first clock
\* read, so exp - iat is 540 when the call stays within one second and is
\* larger by the seconds the clock turned during the call otherwise.
AssertionLifetime == [](AssertionState) /\ [][AssertionStep]_vars

\* an assertion built across the turn of a second: exp - iat is 541
AssertionLifetimeWitness ==
    /\ jwtPayload # NoPayload
    /\ jwtPayload.exp - jwtPayload.iat = JwtLifetime + 1
    /\ jwtPayload.iss = "12345"

Next ==
    \/ Tick
    \/ \E p \in Procs, c \in Clients : StartIssue(p, c)
    \/ \E p \in Procs : ExchangeOk(p)
    \/ \E p \in Procs, e \in ExchangeErrors : ExchangeFails(p, e)
    \/ \E p \in Procs : StoreToken(p, now, now)
    \/ \E p \in Procs : \E identifier \in Clients \cup Keys(storage) \cup removedIds :
          StartDelete(p, identifier)
    \/ \E p \in Procs, o \in RevokeOutcomes : DeleteIdRevoked(p, o)
    \/ \E p \in Procs, o \in RevokeOutcomes : DeleteOwnerRevoked(p, o)
    \/ \E p \in Procs : StartClear(p)
    \/ \E p \in Procs, o \in RevokeOutcomes : ClearRevoked(p, o)
    \/ \E p \in Procs, twice \in BOOLEAN : StartSweep(p, twice)
    \/ \E p \in Procs, o \in RevokeOutcomes : SweepRevoked(p, o)
    \/ \E p \in Procs : Finish(p)

Spec == Init /\ [][Next]_vars

\* every route of the server and the sweep
ServerNext ==
    \/ Tick
    \/ \E p \in Procs, c \in Clients : StartIssue(p, c)
    \/ \E p \in Procs : ExchangeOk(p)
    \/ \E p \in Procs : ExchangeFails(p, "ECONNRESET")
    \/ \E p \in Procs : StoreToken(p, now, now)
    \/ \E p \in Procs : \E identifier \in Clients \cup Keys(storage) \cup removedIds :
          StartDelete(p, identifier)
    \/ \E p \in Procs, o \in RevokeOutcomes : DeleteIdRevoked(p, o)
    \/ \E p \in Procs, o \in RevokeOutcomes : DeleteOwnerRevoked(p, o)
    \/ \E p \in Procs : StartClear(p)
    \/ \E p \in Procs, o \in RevokeOutcomes : ClearRevoked(p, o)
    \/ \E p \in Procs : StartSweep(p, FALSE)
    \/ \E p \in Procs, o \in RevokeOutcomes : SweepRevoked(p, o)
    \/ \E p \in Procs : Finish(p)
    \/ \E p \in Procs : \E reads \in SameInstant(2 * Len(storage), now) : ListTokens(p, reads)
    \/ \E p \in Procs : Health(p)

ServerSpec == Init /\ [][ServerNext]_vars

\* the deletion routes, with an owner whose name is the id of a record and an
\* identifier that is nobody's; no step here reads the clock

DeleteNext ==
    \/ \E p \in Procs, c \in DeleteClients : StartIssue(p, c)
    \/ \E p \in Procs : ExchangeOk(p)
    \/ \E p \in Procs : StoreToken(p, now, now)
    \/ \E p \in Procs : \E identifier \in Identifiers \cup {""} : DeleteRoute(p, identifier)
    \/ \E p \in Procs, o \in RevokeOutcomes : DeleteIdRevoked(p, o)
    \/ \E p \in Procs, o \in RevokeOutcomes : DeleteOwnerRevoked(p, o)
    \/ \E p \in Procs, c \in DeleteClients : DeleteByClientId(p, c)
    \/ \E p \in Procs, o \in RevokeOutcomes : ClearRevoked(p, o)
    \/ \E p \in Procs : Finish(p)

DeleteSpec == Init /\ [][DeleteNext]_vars

\* the cleanup timer with the sweeps it starts, and issue to give them work
TimerNext ==
    \/ Tick
    \/ start
    \/ stop
    \/ \E p \in Procs, id \in 1..MaxStarts : TimerFires(p, id)
    \/ \E p \in Procs : StartIssue(p, "default")
    \/ \E p \in Procs : ExchangeOk(p)
    \/ \E p \in Procs : StoreToken(p, now, now)
    \/ \E p \in Procs, o \in RevokeOutcomes : SweepRevoked(p, o)
    \/ \E p \in Procs : Finish(p)

TimerSpec == Init /\ [][TimerNext]_vars

\* issue, list view and sweep with a clock that may advance between two reads
\* of one synchronous block
ClockNext ==
    \/ Tick
    \/ \E p \in Procs, c \in Clients : StartIssue(p, c)
    \/ \E p \in Procs : ExchangeOk(p)
    \/ \E p \in Procs : \E t1 \in now..MaxTime : \E t2 \in t1..MaxTime : StoreToken(p, t1, t2)
    \/ \E p \in Procs : \E reads \in ClockReads(2 * Len(storage), now) : ListTokens(p, reads)
    \/ \E p \in Procs : StartSweep(p, FALSE)
    \/ \E p \in Procs : SweepRevoked(p, "204")
    \/ \E p \in Procs : Finish(p)

ClockSpec == Init /\ [][ClockNext]_vars

\* issue under every configuration the constructor accepts, the clock
\* standing still within a synchronous block
ConfigNext ==
    \/ Tick
    \/ \E p \in Procs : StartIssue(p, "default")
    \/ \E p \in Procs : ExchangeOk(p)
    \/ \E p \in Procs : StoreToken(p, now, now)
    \/ \E p \in Procs : Health(p)
    \/ \E p \in Procs : Finish(p)

ConfigSpec == ConfigInit /\ [][ConfigNext]_vars

\* the process from before the constructor: construction under every
\* configuration, listen, then issue, health and the timer's sweeps
BootNext ==
    \/ \E options \in Options, environment \in Environments : TokenLease(options, environment)
    \/ listen
    \/ Tick
    \/ \E p \in Procs, id \in 1..MaxStarts : TimerFires(p, id)
    \/ \E p \in Procs : Serving /\ StartIssue(p, "default")
    \/ \E p \in Procs : ExchangeOk(p)
    \/ \E p \in Procs : StoreToken(p, now, now)
    \/ \E p \in Procs : SweepRevoked(p, "204")
    \/ \E p \in Procs : Serving /\ Health(p)
    \/ \E p \in Procs : Finish(p)

BootSpec == BootInit /\ [][BootNext]_vars

\* POST /token with every kind of repositories value
PostNext ==
    \/ \E p \in Procs, v \in RepositoriesValues : StartPost(p, "default", v)
    \/ \E p \in Procs : ExchangeOk(p)
    \/ \E p \in Procs : ExchangeFails(p, "404")
    \/ \E p \in Procs : StoreToken(p, now, now)
    \/ \E p \in Procs : Finish(p)

PostSpec == Init /\ [][PostNext]_vars

\* the dashboard with getRateLimit, and issue to fill the registry
DashboardNext ==
    \/ Tick
    \/ \E p \in Procs : StartIssue(p, "default")
    \/ \E p \in Procs : ExchangeOk(p)
    \/ \E p \in Procs : StoreToken(p, now, now)
    \/ \E p \in Procs : \E reads \in SameInstant(2 * Len(storage), now) : StartDashboard(p, reads)
    \/ \E p \in Procs : RateLimitExchangeOk(p)
    \/ \E p \in Procs : RateLimitExchangeFails(p, "ECONNRESET")
    \/ \E p \in Procs : RateLimitQueryOk(p)
    \/ \E p \in Procs : RateLimitQueryFails(p, "ECONNRESET")
    \/ \E p \in Procs, o \in RevokeOutcomes, wellFormed \in BOOLEAN :
          RateLimitRevoked(p, o, wellFormed)
    \/ \E p \in Procs : Finish(p)

DashboardSpec == Init /\ [][DashboardNext]_vars

\* the timer's sweeps under fairness: the interval timer keeps firing (a
\* foreground request never takes the slot the callback needs), every revoke
\* call returns and every response is sent
SweepLiveNext ==
    \/ Tick
    \/ start
    \/ stop
    \/ \E p \in Procs, id \in 1..MaxStarts : TimerFires(p, id)
    \/ \E p \in Procs : (\E q \in Procs : q # p /\ h[q].pc = "idle") /\ StartIssue(p, "default")
    \/ \E p \in Procs : ExchangeOk(p)
    \/ \E p \in Procs : StoreToken(p, now, now)
    \/ \E p \in Procs, o \in RevokeOutcomes : SweepRevoked(p, o)
    \/ \E p \in Procs : Finish(p)

SweepLiveSpec ==
    /\ Init
    /\ [][SweepLiveNext]_vars
    /\ SF_vars(\E p \in Procs, id \in 1..MaxStarts : TimerFires(p, id))
    /\ \A p \in Procs : WF_vars(\E o \in RevokeOutcomes : SweepRevoked(p, o))
    /\ \A p \in Procs : WF_vars(Finish(p))

\* every method of the registry with its readers: issue, list view, size,
\* the deletion routes, deleteByClientId, clearAll and the sweep
RegistryNext ==
    \/ Tick
    \/ \E p \in Procs : StartIssue(p, "app1")
    \/ \E p \in Procs : ExchangeOk(p)
    \/ \E p \in Procs : StoreToken(p, now, now)
    \/ \E p \in Procs : \E reads \in SameInstant(2 * Len(storage), now) : ListTokens(p, reads)
    \/ \E p \in Procs : Health(p)
    \/ \E p \in Procs : \E identifier \in {"app1", ""} \cup Keys(storage) :
          DeleteRoute(p, identifier)
    \/ \E p \in Procs : DeleteIdRevoked(p, "204")
    \/ \E p \in Procs : DeleteOwnerRevoked(p, "204")
    \/ \E p \in Procs : DeleteByClientId(p, "app1")
    \/ \E p \in Procs : ClearRevoked(p, "204")
    \/ \E p \in Procs : StartSweep(p, FALSE)
    \/ \E p \in Procs : SweepRevoked(p, "204")
    \/ \E p \in Procs : Finish(p)

RegistrySpec == Init /\ [][RegistryNext]_vars

\* the timer's sweeps next to every foreground route
SuspendNext ==
    \/ Tick
    \/ \E p \in Procs, id \in 1..MaxStarts : TimerFires(p, id)
    \/ \E p \in Procs : StartIssue(p, "app1")
    \/ \E p \in Procs : ExchangeOk(p)
    \/ \E p \in Procs : StoreToken(p, now, now)
    \/ \E p \in Procs : \E reads \in SameInstant(2 * Len(storage), now) : ListTokens(p, reads)
    \/ \E p \in Procs : \E identifier \in {"app1", ""} \cup Keys(storage) :
          DeleteRoute(p, identifier)
    \/ \E p \in Procs : DeleteIdRevoked(p, "204")
    \/ \E p \in Procs : DeleteOwnerRevoked(p, "204")
    \/ \E p \in Procs : ClearRevoked(p, "204")
    \/ \E p \in Procs : SweepRevoked(p, "204")
    \/ \E p \in Procs : Finish(p)

SuspendSpec == Init /\ [][SuspendNext]_vars

\* generateJWT at every clock value around the turn of a second, under every
\* configuration the constructor accepts
JwtNext ==
    \/ JwtTick
    \/ \E t1 \in now..JwtMaxTime : \E t2 \in t1..JwtMaxTime : GenerateJWT(t1, t2)

JwtSpec == JwtInit /\ [][JwtNext]_vars
====
